---- MODULE Spec2Model ----
(***************************************************************************)
(* A model of todoist-ai-ranker: the pydantic score models (models.py),    *)
(* the batch orchestrator of the AI ranker (ai_ranker.py), the rate-limited *)
(* and retried Todoist client (todoist_client.py) and the run modes of      *)
(* main.py.  Each component has its own specification over the shared       *)
(* variables; a component that a specification does not exercise stays in   *)
(* its idle state.                                                          *)
(***************************************************************************)
EXTENDS Integers, Sequences, FiniteSets, TLC

VARIABLES
    \* --- validation of one model element (models.py)
    v_model,        \* "TaskPriority" | "InboxOrganization"
    v_raw,          \* the raw element handed to the constructor
    v_res,          \* the constructor's outcome, "none" before it ran
    \* --- batch orchestrator (ai_ranker.py rank_tasks / organize_inbox_tasks)
    kind,           \* "rank" | "org": which of the two methods runs
    tasks,          \* the input task ids, in input order
    batch_size,
    i,              \* the loop variable of range(0, len(tasks), batch_size)
    all_rankings,   \* all_rankings / all_organizations
    rpc,            \* "idle" | "entry" | "loop" | "merge" | "done"
    returned,       \* the returned collection once rpc = "done"
    mismatch,       \* [missing, extra, logged] computed before returning
    chunk_log,      \* history: per processed chunk, its batch, response and yield
    \* --- one call of a remote operation (todoist_client.py, ai_ranker.py)
    c_call,         \* the call made: its arguments, the requests sent, its result
    \* --- RateLimiter (todoist_client.py); time is counted in tenths of a second
    max_calls,
    period,         \* period_seconds, in tenths
    calls,          \* the deque of call timestamps
    clock,          \* the last value time.time() returned
    lpc,            \* "idle" | "sleeping" (inside time.sleep) | "raised"
    wake_at,        \* the earliest time the running time.sleep returns
    issued_at,      \* history: when each top-level wait_if_needed was entered
    recorded,       \* history: every timestamp ever appended to calls
    \* --- the Today selection step (main.py, organize_today_view)
    all_tasks,      \* the ids of the fetched tasks (the keys of task_map)
    rankings,       \* rankings.rankings: a sequence of [task_id, priority_level, priority_score]
    limit,
    selected_tasks, \* the ids of selected_tasks, in order
    sel_pc,         \* "idle" | "ready" | "done" | "again" | "ordered"
    final_ordered_tasks, \* Today mode: the sorted list whose tasks go to reorder_tasks
    ordered_tasks,  \* plain mode: the sorted list whose tasks go to reorder_tasks
    \* --- one run of the command line (main.py)
    mode,           \* "rank" | "today" | "inbox"
    run_dry_run,
    pc,             \* "idle" | "fetch" | "rank" | "confirm" | "write" | "exit"
    phase,          \* index of the next write phase
    outcome,        \* how the run ended
    confirmation,   \* the answer to the confirmation prompt, once it was read
    sent,           \* the kinds of mutating requests the run has sent
    \* --- one call of batch_update_priorities / batch_update_due_dates
    b_op,           \* "priorities" | "due_dates"
    b_updates,      \* the input list: a priority, or a due string, per item
    b_dry_run,
    b_idx,          \* the number of items the loop has gone through
    b_results,      \* results: [successful, failed]
    b_log,          \* history: per update call, the item's index and what it returned
    b_pc,           \* "idle" | "loop" | "returned" | "raised"
    \* --- what a run prints about tasks without a score (main.py)
    report,         \* [done, invoked, listed]
    \* --- organize_today_view from the selection to the writes (main.py)
    t_tasks,        \* all_tasks: per task id, [is_recurring, priority]
    t_current,      \* current_today_tasks: ids in fetch order
    t_rankings,     \* rankings.rankings
    t_limit,
    t_selected,     \* selected_tasks: ids in order
    tasks_to_add,
    tasks_to_remove,
    t_writes,       \* the lists handed to the client: due_today, due_tomorrow, priority, reorder
    t_pc,           \* "idle" | "ranked" | "diffed" | "applied" | "refetched" | "rerun"
    \* --- one call of dates_are_equivalent (main.py)
    d_date1,        \* None or a string: [tag, s]
    d_date2,
    d_now,          \* datetime.now().date() during the call: [y, m, d]
    d_result,       \* the value returned, meaningful once d_pc = "done"
    d_pc,           \* "idle" | "called" | "done"
    \* --- the start of main (main.py, config.py)
    env_todoist_api_token,  \* TODOIST_API_TOKEN as the environment gives it
    env_openai_api_key,     \* OPENAI_API_KEY
    s_pc,                   \* "idle" | "start" | "clients" | "running" | "exit"
    s_exit,                 \* the value main returns, meaningful once s_pc = "exit"
    s_todoist_requests,     \* requests issued to the task service
    s_openai_requests,      \* requests issued to the language model
    \* --- one InboxOrganizations object (models.py)
    organizations,  \* the organizations list
    task_map,       \* _task_map: not built (None), or the cached mapping
    lookup_id,      \* the argument of the last get_organization_for_task
    lookup_result,  \* what it returned (Absent for None)
    changes,        \* how often the list was changed after construction
    k_pc,           \* "idle" | "built" | "looked" | "changed"
    \* --- task-service calls through the rate limiter (todoist_client.py)
    a_pc,           \* "idle" | "attempt" | "waiting" | "done"
    a_attempt,      \* the number of the current attempt of the current call
    a_calls,        \* how many calls of _api_call_with_retry were started
    a_log,          \* the requests sent: call, attempt and time
    \* --- the writes of organize_today_view (main.py Steps 6 to 9)
    w_plan,         \* the four lists the steps work on
    w_step,         \* the number of the next step, 0 outside the function
    w_log,          \* the requests sent, in order, each with its outcome
    \* --- the due-date step of organize_inbox (main.py 562-579)
    inbox_dues,     \* the due field of every inbox task, in list order
    inbox_orgs,     \* the suggestion found for every inbox task, or none
    inbox_now,      \* datetime.now().date()
    inbox_updates,  \* due_date_updates
    inbox_payloads, \* the due_string payloads handed to the request layer
    inbox_pc        \* "idle" | "confirmed" | "collected" | "done"

valVars  == <<v_model, v_raw, v_res>>
rankVars == <<kind, tasks, batch_size, i, all_rankings, rpc, returned, mismatch, chunk_log>>
limVars  == <<max_calls, period, calls, clock, lpc, wake_at, issued_at, recorded>>
selVars  == <<all_tasks, rankings, limit, selected_tasks, sel_pc, final_ordered_tasks,
              ordered_tasks>>
runVars  == <<mode, run_dry_run, pc, phase, outcome, confirmation, sent>>
batchVars == <<b_op, b_updates, b_dry_run, b_idx, b_results, b_log, b_pc>>
reportVars == <<report>>
todayVars == <<t_tasks, t_current, t_rankings, t_limit, t_selected, tasks_to_add,
               tasks_to_remove, t_writes, t_pc>>
dateVars == <<d_date1, d_date2, d_now, d_result, d_pc>>
startVars == <<env_todoist_api_token, env_openai_api_key, s_pc, s_exit, s_todoist_requests, s_openai_requests>>
lookVars == <<organizations, task_map, lookup_id, lookup_result, changes, k_pc>>
apiVars  == <<a_pc, a_attempt, a_calls, a_log>>
twVars   == <<w_plan, w_step, w_log>>
inboxVars == <<inbox_dues, inbox_orgs, inbox_now, inbox_updates, inbox_payloads, inbox_pc>>
vars     == <<valVars, rankVars, c_call, limVars, selVars, runVars, batchVars, reportVars, todayVars, dateVars, startVars, lookVars, apiVars, twVars, inboxVars>>

(***************************************************************************)
(* Strings whose characters the code inspects are sequences of one-letter   *)
(* strings, so that upper(), strip() and the substring test are computed.   *)
(***************************************************************************)
UpperChar(c) ==
    CASE c = "p" -> "P"
      [] c = "h" -> "H"
      [] c = "i" -> "I"
      [] c = "g" -> "G"
      [] OTHER   -> c

Upper(s) == [k \in 1..Len(s) |-> UpperChar(s[k])]

IsSpace(c) == c = " "

RECURSIVE LStrip(_)
LStrip(s) == IF s # <<>> /\ IsSpace(Head(s)) THEN LStrip(Tail(s)) ELSE s

RECURSIVE RStrip(_)
RStrip(s) ==
    IF s # <<>> /\ IsSpace(s[Len(s)]) THEN RStrip(SubSeq(s, 1, Len(s) - 1)) ELSE s

Strip(s) == RStrip(LStrip(s))

UpperCaseLetters == <<"A", "B", "C", "D", "E", "F", "G", "H", "I", "J", "K", "L", "M", "N", "O", "P", "Q", "R", "S", "T", "U", "V", "W", "X", "Y", "Z">>
LowerCaseLetters == <<"a", "b", "c", "d", "e", "f", "g", "h", "i", "j", "k", "l", "m", "n", "o", "p", "q", "r", "s", "t", "u", "v", "w", "x", "y", "z">>

LowerChar(c) ==
    IF \E k \in 1..Len(UpperCaseLetters) : UpperCaseLetters[k] = c
    THEN LowerCaseLetters[CHOOSE k \in 1..Len(UpperCaseLetters) : UpperCaseLetters[k] = c]
    ELSE c

\* str.lower
Lower(s) == [k \in 1..Len(s) |-> LowerChar(s[k])]

\* Python's `sub in s` for strings
Contains(sub, s) ==
    \E k \in 1..(Len(s) - Len(sub) + 1) : SubSeq(s, k, k + Len(sub) - 1) = sub

P1 == <<"P", "1">>
P2 == <<"P", "2">>
P3 == <<"P", "3">>
P4 == <<"P", "4">>

valid_levels == <<P1, P2, P3, P4>>

InValidLevels(s) == \E k \in 1..Len(valid_levels) : valid_levels[k] = s

Rejected == [ok |-> FALSE]

(***************************************************************************)
(* models.py: a raw element is what json.loads produced for one entry of    *)
(* the "rankings" / "organizations" array.  Every field carries a tag for   *)
(* the JSON shape it had: "missing" is an absent key, "none" a JSON null,   *)
(* "text" a string that is not a number.  Task ids are opaque: naturals.    *)
(***************************************************************************)
\* Field(ge=0, le=100) of priority_score
score_ge == 0
score_le == 100

\* `int` field with ge/le constraints and no validator of its own
TaskPriority_priority_score(f) ==
    IF f.tag = "int" /\ f.n >= score_ge /\ f.n <= score_le
    THEN [ok |-> TRUE, n |-> f.n]
    ELSE [ok |-> FALSE, n |-> 0]

\* TaskPriority.validate_priority_level: raises unless v.upper() is a level
TaskPriority_validate_priority_level(v) ==
    IF InValidLevels(Upper(v))
    THEN [ok |-> TRUE, s |-> Upper(v)]
    ELSE [ok |-> FALSE, s |-> <<>>]

\* the `str` type check runs before the (mode='after') validator
TaskPriority_priority_level(f) ==
    IF f.tag = "str" THEN TaskPriority_validate_priority_level(f.s)
    ELSE [ok |-> FALSE, s |-> <<>>]

\* priority_map of both todoist_priority properties
priority_map(level) ==
    CASE level = P1 -> 4
      [] level = P2 -> 3
      [] level = P3 -> 2
      [] level = P4 -> 1

\* TaskPriority.todoist_priority: priority_map[self.priority_level]
TaskPriority_todoist_priority(level) == priority_map(level)

\* InboxOrganization.todoist_priority: priority_map.get(self.priority_level, 1)
InboxOrganization_todoist_priority(level) ==
    IF InValidLevels(level) THEN priority_map(level) ELSE 1

\* TaskPriority(**raw): every field must validate
TaskPriority(raw) ==
    LET sc == TaskPriority_priority_score(raw.priority_score)
        lv == TaskPriority_priority_level(raw.priority_level)
    IN  IF /\ raw.dict
           /\ raw.task_id.tag = "str"
           /\ sc.ok
           /\ lv.ok
           /\ raw.reasoning = "str"
        THEN [ok |-> TRUE, task_id |-> raw.task_id.id, priority_score |-> sc.n,
              priority_level |-> lv.s]
        ELSE Rejected

\* the first level of valid_levels contained in v_upper, P4 when there is none
FirstLevelIn(v_upper) ==
    IF \E k \in 1..Len(valid_levels) : Contains(valid_levels[k], v_upper)
    THEN valid_levels[CHOOSE k \in 1..Len(valid_levels) :
                        /\ Contains(valid_levels[k], v_upper)
                        /\ \A j \in 1..(k - 1) : ~Contains(valid_levels[j], v_upper)]
    ELSE P4

\* InboxOrganization.validate_priority_level: never raises on a string
InboxOrganization_validate_priority_level(v) ==
    IF v = <<>> THEN P4
    ELSE LET v_upper == Strip(Upper(v))
         IN  IF ~InValidLevels(v_upper) THEN FirstLevelIn(v_upper) ELSE v_upper

InboxOrganization_priority_level(f) ==
    IF f.tag = "str"
    THEN [ok |-> TRUE, s |-> InboxOrganization_validate_priority_level(f.s)]
    ELSE [ok |-> FALSE, s |-> <<>>]

Min(a, b) == IF a < b THEN a ELSE b
Max(a, b) == IF a > b THEN a ELSE b

\* InboxOrganization.validate_priority_score (mode='before'): clamp, default 50
InboxOrganization_validate_priority_score(f) ==
    CASE f.tag = "none" -> Max(0, Min(100, 50))
      [] f.tag = "text" -> 50
      [] OTHER          -> Max(0, Min(100, f.n))

\* a required field: an absent key is an error before any validator runs; the
\* validator's value then passes Field(ge=0, le=100)
InboxOrganization_priority_score(f) ==
    IF f.tag = "missing" THEN [ok |-> FALSE, n |-> 0]
    ELSE LET n == InboxOrganization_validate_priority_score(f)
         IN  [ok |-> n >= score_ge /\ n <= score_le, n |-> n]

None == [tag |-> "none", s |-> <<>>]

\* validate_project_id / validate_due_date: None, "null" and "" become None
InboxOrganization_validate_optional(f) ==
    IF f.tag \in {"missing", "none"} \/ f.s = <<"n", "u", "l", "l">> \/ f.s = <<>>
    THEN None
    ELSE [tag |-> "str", s |-> f.s]

\* InboxOrganization(**raw): reasoning has a default and a total validator
InboxOrganization(raw) ==
    LET sc == InboxOrganization_priority_score(raw.priority_score)
        lv == InboxOrganization_priority_level(raw.priority_level)
    IN  IF /\ raw.dict
           /\ raw.task_id.tag = "str"
           /\ sc.ok
           /\ lv.ok
        THEN [ok |-> TRUE, task_id |-> raw.task_id.id, priority_score |-> sc.n,
              priority_level |-> lv.s,
              project_id |-> InboxOrganization_validate_optional(raw.project_id),
              due_date |-> InboxOrganization_validate_optional(raw.due_date)]
        ELSE Rejected

Construct(model, raw) ==
    IF model = "TaskPriority" THEN TaskPriority(raw) ELSE InboxOrganization(raw)

todoist_priority(model, level) ==
    IF model = "TaskPriority" THEN TaskPriority_todoist_priority(level)
    ELSE InboxOrganization_todoist_priority(level)

(***************************************************************************)
(* SpecValidate: one constructor call on one raw element.                   *)
(***************************************************************************)
ScoreInts == {0 - 20, 0 - 1, 0, 50, 100, 101, 150}

RawScoreFields ==
    {[tag |-> "int", n |-> k] : k \in ScoreInts}
        \cup {[tag |-> t, n |-> 0] : t \in {"none", "missing", "text"}}

LevelStrings ==
    {P1, P2, P3, P4, <<"p", "1">>, <<" ", "p", "3", " ">>, <<"H", "I", "G", "H">>,
     <<"h", "i", "g", "h">>, <<>>, <<" ">>, <<"P", "2", "!">>, <<"P", "5">>}

RawLevelFields ==
    {[tag |-> "str", s |-> x] : x \in LevelStrings}
        \cup {[tag |-> t, s |-> <<>>] : t \in {"none", "missing"}}

RawIdFields == {[tag |-> "str", id |-> 1], [tag |-> "missing", id |-> 0]}

RawOptionalFields ==
    {[tag |-> "missing", s |-> <<>>], None, [tag |-> "str", s |-> <<"n", "u", "l", "l">>],
     [tag |-> "str", s |-> <<"x">>]}

RawElements ==
    [dict : BOOLEAN, task_id : RawIdFields, priority_score : RawScoreFields,
     priority_level : RawLevelFields, reasoning : {"str", "missing", "none"},
     project_id : {None}, due_date : RawOptionalFields]

NotRun == [ran |-> FALSE]

IdleRaw ==
    [dict |-> FALSE, task_id |-> [tag |-> "missing", id |-> 0],
     priority_score |-> [tag |-> "missing", n |-> 0],
     priority_level |-> [tag |-> "missing", s |-> <<>>], reasoning |-> "missing",
     project_id |-> None, due_date |-> None]

ValIdle == v_model = "TaskPriority" /\ v_raw = IdleRaw /\ v_res = NotRun

ValInit ==
    /\ v_model \in {"TaskPriority", "InboxOrganization"}
    /\ v_raw \in RawElements
    /\ v_res = NotRun

\* TaskPriority(**element) / InboxOrganization(**element)
construct_element ==
    /\ v_res = NotRun
    /\ v_res' = [ran |-> TRUE, out |-> Construct(v_model, v_raw)]
    /\ UNCHANGED <<v_model, v_raw>>

(***************************************************************************)
(* The retried remote call (tenacity) and the Todoist client's methods.     *)
(* The remote end decides the outcome of each attempt:                      *)
(*   "status_200"        a response with a success status                   *)
(*   "status_200_not_ok" a success status whose sync_status is not "ok"     *)
(*   "status_503"        a response with a retryable error status           *)
(*   "status_400"        a response with a client error status              *)
(*   "RequestException"  requests raised a network-level exception          *)
(*   "OtherException"    the call raised something else (e.g. a TypeError)  *)
(* and for the language model: "content", "transient_error" (connection,    *)
(* rate limit, server error) and "bad_request" (a malformed request).       *)
(***************************************************************************)
\* stop_after_attempt(3)
stop_after_attempt == 3

TodoistOutcomes ==
    {"status_200", "status_200_not_ok", "status_503", "status_400", "RequestException",
     "OtherException"}

OpenAIOutcomes == {"content", "transient_error", "bad_request"}

Raises(ends) ==
    ends \in {"RequestException", "OtherException", "transient_error", "bad_request"}

\* retry_if_exception_type((RequestException, HTTPError)): the wrapped function
\* is the bare requests call, which raises no HTTPError by itself
api_call_retry_on == {"RequestException"}

\* retry_if_exception_type((Exception,))
call_openai_retry_on == {"transient_error", "bad_request"}

\* tenacity's loop: the number of attempts made when attempt k has outcome outs[k]
RECURSIVE AttemptsFrom(_, _, _)
AttemptsFrom(outs, k, retry_on) ==
    IF outs[k] \in retry_on /\ k < stop_after_attempt
    THEN AttemptsFrom(outs, k + 1, retry_on)
    ELSE k

\* the decorated function: the outcomes of the attempts made, and how it ends
\* ("RetryError" once the attempts are used up, the exception itself when it is
\* not retried, else the value returned)
Retrying(outs, retry_on) ==
    LET n == AttemptsFrom(outs, 1, retry_on)
    IN  [attempts |-> SubSeq(outs, 1, n),
         ends |-> IF outs[n] \in retry_on THEN "RetryError" ELSE outs[n]]

\* TodoistClient._api_call_with_retry
api_call_with_retry(outs) == Retrying(outs, api_call_retry_on)

\* AIRanker._call_openai
call_openai(outs) == Retrying(outs, call_openai_retry_on)

\* response.raise_for_status() after the retried call returned a response
raise_for_status(ends) == ends \in {"status_503", "status_400"}

NoAttempts == <<>>

\* TodoistClient.update_task_priority
update_task_priority(priority, dry_run, outs) ==
    IF ~(1 <= priority /\ priority <= 4) THEN [attempts |-> NoAttempts, result |-> "False"]
    ELSE IF dry_run THEN [attempts |-> NoAttempts, result |-> "True"]
    ELSE LET r == api_call_with_retry(outs)
         IN  [attempts |-> r.attempts,
              result |-> IF Raises(r.ends) \/ r.ends = "RetryError" \/ raise_for_status(r.ends)
                         THEN "False" ELSE "True"]

\* TodoistClient.update_task_due_date
update_task_due_date(dry_run, outs) ==
    IF dry_run THEN [attempts |-> NoAttempts, result |-> "True"]
    ELSE LET r == api_call_with_retry(outs)
         IN  [attempts |-> r.attempts,
              result |-> IF Raises(r.ends) \/ r.ends = "RetryError" \/ raise_for_status(r.ends)
                         THEN "False" ELSE "True"]

\* TodoistClient.reorder_tasks; n is len(ordered_tasks)
reorder_tasks(n, dry_run, outs) ==
    IF n = 0 THEN [attempts |-> NoAttempts, result |-> "True"]
    ELSE IF dry_run THEN [attempts |-> NoAttempts, result |-> "True"]
    ELSE LET r == api_call_with_retry(outs)
         IN  [attempts |-> r.attempts,
              result |-> IF r.ends = "status_200" THEN "True" ELSE "False"]

\* TodoistClient.get_tasks: the failure is logged and raised again
get_tasks(outs) ==
    LET r == api_call_with_retry(outs)
    IN  [attempts |-> r.attempts,
         result |-> IF Raises(r.ends) \/ r.ends = "RetryError" \/ raise_for_status(r.ends)
                    THEN "raised" ELSE "tasks"]

\* a call of AIRanker._call_openai from the batch loop
call_openai_result(outs) ==
    LET r == call_openai(outs)
    IN  [attempts |-> r.attempts,
         result |-> IF r.ends = "content" THEN "content" ELSE "raised"]

(***************************************************************************)
(* SpecClient: one call of one remote operation, with any arguments and any *)
(* behaviour of the remote end.                                             *)
(***************************************************************************)
MaxItems == 2

NoCall ==
    [op |-> "none", priority |-> 0, n |-> 0, dry_run |-> FALSE, attempts |-> NoAttempts,
     result |-> "none"]

ClientIdle == c_call = NoCall

Made(op, priority, n, dry_run, r) ==
    [op |-> op, priority |-> priority, n |-> n, dry_run |-> dry_run,
     attempts |-> r.attempts, result |-> r.result]

update_task_priority_call ==
    /\ c_call = NoCall
    /\ \E priority \in 0..5, dry_run \in BOOLEAN,
          outs \in [1..stop_after_attempt -> TodoistOutcomes] :
          c_call' = Made("update_task_priority", priority, 1, dry_run,
                         update_task_priority(priority, dry_run, outs))
    /\ UNCHANGED <<valVars, rankVars, limVars, selVars, runVars, batchVars, reportVars, todayVars, dateVars, startVars, lookVars, apiVars, twVars, inboxVars>>

update_task_due_date_call ==
    /\ c_call = NoCall
    /\ \E dry_run \in BOOLEAN, outs \in [1..stop_after_attempt -> TodoistOutcomes] :
          c_call' = Made("update_task_due_date", 0, 1, dry_run,
                         update_task_due_date(dry_run, outs))
    /\ UNCHANGED <<valVars, rankVars, limVars, selVars, runVars, batchVars, reportVars, todayVars, dateVars, startVars, lookVars, apiVars, twVars, inboxVars>>

reorder_tasks_call ==
    /\ c_call = NoCall
    /\ \E n \in 0..MaxItems, dry_run \in BOOLEAN,
          outs \in [1..stop_after_attempt -> TodoistOutcomes] :
          c_call' = Made("reorder_tasks", 0, n, dry_run, reorder_tasks(n, dry_run, outs))
    /\ UNCHANGED <<valVars, rankVars, limVars, selVars, runVars, batchVars, reportVars, todayVars, dateVars, startVars, lookVars, apiVars, twVars, inboxVars>>

get_tasks_call ==
    /\ c_call = NoCall
    /\ \E outs \in [1..stop_after_attempt -> TodoistOutcomes] :
          c_call' = Made("get_tasks", 0, 0, FALSE, get_tasks(outs))
    /\ UNCHANGED <<valVars, rankVars, limVars, selVars, runVars, batchVars, reportVars, todayVars, dateVars, startVars, lookVars, apiVars, twVars, inboxVars>>

call_openai_call ==
    /\ c_call = NoCall
    /\ \E outs \in [1..stop_after_attempt -> OpenAIOutcomes] :
          c_call' = Made("_call_openai", 0, 0, FALSE, call_openai_result(outs))
    /\ UNCHANGED <<valVars, rankVars, limVars, selVars, runVars, batchVars, reportVars, todayVars, dateVars, startVars, lookVars, apiVars, twVars, inboxVars>>

ClientNext ==
    \/ update_task_priority_call
    \/ update_task_due_date_call
    \/ reorder_tasks_call
    \/ get_tasks_call
    \/ call_openai_call

(***************************************************************************)
(* RateLimiter.  time.time() never goes backwards here, and time.sleep(s)   *)
(* returns after at least s.  One tenth of a second is the `+ 0.1` buffer.  *)
(***************************************************************************)
MaxRate == 2
MaxPeriodSeconds == 1
MaxIssued == 3
MaxTime == 23

\* + 0.1  # Small buffer
sleep_buffer == 1

\* while self.calls and self.calls[0] < now - self.period: self.calls.popleft()
RECURSIVE Evict(_, _, _)
Evict(cs, now, per) ==
    IF cs # <<>> /\ Head(cs) < now - per THEN Evict(Tail(cs), now, per) ELSE cs

at_limit_off_by_one(n, most) == n > most

\* if len(self.calls) >= self.max_calls
at_limit(n, most) == n >= most

\* self.period - (now - self.calls[0]) + 0.1
sleep_time(now, cs, per) == per - (now - cs[1]) + sleep_buffer

LimIdle ==
    /\ max_calls = 1
    /\ period = 10
    /\ calls = <<>>
    /\ clock = 0
    /\ lpc = "idle"
    /\ wake_at = 0
    /\ issued_at = <<>>
    /\ recorded = <<>>

\* RateLimiter.__init__
LimInit ==
    /\ max_calls \in 0..MaxRate
    /\ period \in {10 * p : p \in 1..MaxPeriodSeconds}
    /\ calls = <<>>
    /\ clock = 0
    /\ lpc = "idle"
    /\ wake_at = 0
    /\ issued_at = <<>>
    /\ recorded = <<>>

\* one run of the body of wait_if_needed with time.time() = now: it appends
\* now, or starts to sleep before calling itself again, or fails on calls[0]
\* of an empty deque
WaitBody(now) ==
    LET cs == Evict(calls, now, period)
    IN  /\ clock' = now
        /\ IF at_limit(Len(cs), max_calls)
           THEN IF cs = <<>>
                THEN /\ lpc' = "raised"
                     /\ calls' = cs
                     /\ UNCHANGED <<wake_at, recorded>>
                ELSE IF sleep_time(now, cs, period) > 0
                THEN /\ lpc' = "sleeping"
                     /\ wake_at' = now + sleep_time(now, cs, period)
                     /\ calls' = cs
                     /\ UNCHANGED recorded
                ELSE /\ lpc' = "idle"
                     /\ calls' = Append(cs, now)
                     /\ recorded' = Append(recorded, now)
                     /\ UNCHANGED wake_at
           ELSE /\ lpc' = "idle"
                /\ calls' = Append(cs, now)
                /\ recorded' = Append(recorded, now)
                /\ UNCHANGED wake_at

\* a caller enters wait_if_needed
wait_if_needed ==
    /\ lpc = "idle"
    /\ Len(issued_at) < MaxIssued
    /\ \E now \in clock..MaxTime :
          /\ issued_at' = Append(issued_at, now)
          /\ WaitBody(now)
    /\ UNCHANGED <<max_calls, period>>
    /\ UNCHANGED <<valVars, rankVars, c_call, selVars, runVars, batchVars, reportVars, todayVars, dateVars, startVars, lookVars, apiVars, twVars, inboxVars>>

\* time.sleep returns and wait_if_needed calls itself ("Recursive check")
wait_if_needed_recheck ==
    /\ lpc = "sleeping"
    /\ \E now \in wake_at..MaxTime : WaitBody(now)
    /\ UNCHANGED <<max_calls, period, issued_at>>
    /\ UNCHANGED <<valVars, rankVars, c_call, selVars, runVars, batchVars, reportVars, todayVars, dateVars, startVars, lookVars, apiVars, twVars, inboxVars>>

LimNext ==
    \/ wait_if_needed
    \/ wait_if_needed_recheck


(***************************************************************************)
(* ai_ranker.py: the language model's answer to one batch.  For every task  *)
(* of the batch the model answers in one of the Shapes, and it may append   *)
(* an element for a task id nobody asked about (FabricatedId).              *)
(***************************************************************************)
MaxTasks == 3
MaxBatch == 3

\* an id that no input task has
FabricatedId == MaxTasks + 1

TaskIds(n) == [k \in 1..n |-> k]

Shapes == {"good", "no_reasoning", "no_score", "not_dict", "omit"}

Element(id, shape) ==
    [dict |-> shape # "not_dict",
     task_id |-> [tag |-> "str", id |-> id],
     priority_score |-> IF shape = "no_score" THEN [tag |-> "missing", n |-> 0]
                        ELSE [tag |-> "int", n |-> 80 + id],
     priority_level |-> [tag |-> "str", s |-> IF id = 1 THEN <<"p", "1">> ELSE P2],
     reasoning |-> IF shape = "no_reasoning" THEN "missing" ELSE "str",
     project_id |-> None,
     due_date |-> None]

RECURSIVE Answer(_, _, _)
Answer(batch, shape, k) ==
    IF k > Len(batch) THEN <<>>
    ELSE (IF shape[k] = "omit" THEN <<>> ELSE <<Element(batch[k], shape[k])>>)
             \o Answer(batch, shape, k + 1)

\* what _call_openai and json.loads hand back for one batch:
\*   "raise"    _call_openai raised after its retries
\*   "badjson"  json.loads raised JSONDecodeError
\*   "nokey"    a JSON object without the top-level array key
\*   "notlist"  the top-level key holds something that is not an array of objects
\*   "ok"       the top-level key holds the array elems
Responses(batch) ==
    {[outcome |-> o, elems |-> <<>>] : o \in {"raise", "badjson", "nokey", "notlist"}}
        \cup {[outcome |-> "ok",
               elems |-> Answer(batch, shape, 1)
                           \o (IF extra THEN <<Element(FabricatedId, "good")>> ELSE <<>>)] :
                 shape \in [1..Len(batch) -> Shapes], extra \in BOOLEAN}

\* PriorityRankings(**response_data): the whole collection validates or nothing
PriorityRankings(resp) ==
    IF resp.outcome = "ok" /\ \A k \in 1..Len(resp.elems) : TaskPriority(resp.elems[k]).ok
    THEN [ok |-> TRUE, rankings |-> [k \in 1..Len(resp.elems) |-> TaskPriority(resp.elems[k])]]
    ELSE [ok |-> FALSE, rankings |-> <<>>]

\* InboxOrganizations(**response_data)
InboxOrganizations(resp) ==
    IF resp.outcome = "ok" /\ \A k \in 1..Len(resp.elems) : InboxOrganization(resp.elems[k]).ok
    THEN [ok |-> TRUE,
          organizations |-> [k \in 1..Len(resp.elems) |-> InboxOrganization(resp.elems[k])]]
    ELSE [ok |-> FALSE, organizations |-> <<>>]

RECURSIVE valid_orgs(_)
valid_orgs(elems) ==
    IF elems = <<>> THEN <<>>
    ELSE (IF InboxOrganization(Head(elems)).ok THEN <<InboxOrganization(Head(elems))>>
          ELSE <<>>) \o valid_orgs(Tail(elems))

\* the body of one iteration of rank_tasks' loop: what it adds to all_rankings
rank_tasks_batch_yield(resp) ==
    IF resp.outcome \in {"raise", "badjson"} THEN <<>>
    ELSE PriorityRankings(resp).rankings

\* the body of one iteration of organize_inbox_tasks' loop.  The handler of a
\* failed element calls org_data.get, which itself raises on an element that is
\* not an object: the batch then ends in batch_failed before valid_orgs is used.
organize_inbox_tasks_batch_yield(resp) ==
    IF resp.outcome \in {"raise", "badjson"} THEN <<>>
    ELSE IF InboxOrganizations(resp).ok THEN InboxOrganizations(resp).organizations
    ELSE IF resp.outcome # "ok" THEN <<>>
    ELSE IF \E k \in 1..Len(resp.elems) : ~resp.elems[k].dict THEN <<>>
    ELSE valid_orgs(resp.elems)

\* tasks[i:i + batch_size], i counted from 0
Batch(ts, idx, bs) == SubSeq(ts, idx + 1, Min(idx + bs, Len(ts)))

next_batch_index_break(idx, bs, n, yield) == IF yield = <<>> THEN n ELSE idx + bs

\* `continue`: the loop goes on with the next value of range(0, len(tasks), batch_size)
next_batch_index(idx, bs, n, yield) == idx + bs

SeqIds(rs) == {rs[k].task_id : k \in 1..Len(rs)}
Range(f) == {f[k] : k \in DOMAIN f}

NoMismatch == [missing |-> {}, extra |-> {}, logged |-> FALSE]

compute_mismatch_missing_only(task_ids, ranked_ids) ==
    [missing |-> task_ids \ ranked_ids,
     extra |-> {},
     logged |-> task_ids \ ranked_ids # {}]

\* missing_task_ids, extra_task_ids, and `if ranked_ids != task_ids` around
\* the warning
compute_mismatch(task_ids, ranked_ids) ==
    [missing |-> task_ids \ ranked_ids,
     extra |-> ranked_ids \ task_ids,
     logged |-> ranked_ids # task_ids]

RankIdle ==
    /\ kind = "rank"
    /\ tasks = <<>>
    /\ batch_size = 1
    /\ i = 0
    /\ all_rankings = <<>>
    /\ rpc = "idle"
    /\ returned = <<>>
    /\ mismatch = NoMismatch
    /\ chunk_log = <<>>

RankInit ==
    /\ kind \in {"rank", "org"}
    /\ tasks \in {TaskIds(n) : n \in 0..MaxTasks}
    /\ batch_size \in 1..MaxBatch
    /\ i = 0
    /\ all_rankings = <<>>
    /\ rpc = "entry"
    /\ returned = <<>>
    /\ mismatch = NoMismatch
    /\ chunk_log = <<>>

\* `if not tasks: return ...(rankings=[])`, else all_rankings = [] and the loop
orchestrator_entry ==
    /\ rpc = "entry"
    /\ rpc' = IF tasks = <<>> THEN "done" ELSE "loop"
    /\ UNCHANGED <<kind, tasks, batch_size, i, all_rankings, returned, mismatch, chunk_log>>
    /\ UNCHANGED <<valVars, c_call, limVars, selVars, runVars, batchVars, reportVars, todayVars, dateVars, startVars, lookVars, apiVars, twVars, inboxVars>>

extend_at_front(collected, items) == items \o collected

\* all_rankings.extend(...) / all_organizations.extend(...)
extend(collected, items) == collected \o items

\* the loop body of the method that runs
BatchYield(resp) ==
    IF kind = "rank" THEN rank_tasks_batch_yield(resp)
    ELSE organize_inbox_tasks_batch_yield(resp)

ProcessBatch ==
    /\ rpc = "loop"
    /\ i < Len(tasks)
    /\ \E resp \in Responses(Batch(tasks, i, batch_size)) :
          /\ all_rankings' = extend(all_rankings, BatchYield(resp))
          /\ chunk_log' = Append(chunk_log,
                [batch |-> Batch(tasks, i, batch_size), resp |-> resp,
                 added |-> BatchYield(resp)])
          /\ i' = next_batch_index(i, batch_size, Len(tasks), BatchYield(resp))
    /\ UNCHANGED <<kind, tasks, batch_size, rpc, returned, mismatch>>
    /\ UNCHANGED <<valVars, c_call, limVars, selVars, runVars, batchVars, reportVars, todayVars, dateVars, startVars, lookVars, apiVars, twVars, inboxVars>>

rank_tasks_batch == kind = "rank" /\ ProcessBatch

organize_inbox_tasks_batch == kind = "org" /\ ProcessBatch

\* after the loop: the final collection, the mismatch warning, the return
orchestrator_return ==
    /\ rpc = "loop"
    /\ i >= Len(tasks)
    /\ returned' = all_rankings
    /\ mismatch' = compute_mismatch(Range(tasks), SeqIds(all_rankings))
    /\ rpc' = "done"
    /\ UNCHANGED <<kind, tasks, batch_size, i, all_rankings, chunk_log>>
    /\ UNCHANGED <<valVars, c_call, limVars, selVars, runVars, batchVars, reportVars, todayVars, dateVars, startVars, lookVars, apiVars, twVars, inboxVars>>

RankNext ==
    \/ orchestrator_entry
    \/ rank_tasks_batch
    \/ organize_inbox_tasks_batch
    \/ orchestrator_return

(***************************************************************************)
(* main.py, organize_today_view, Step 4: the selection of the top tasks.    *)
(***************************************************************************)
MaxSelTasks == 2
MaxRankLen == 2

SelScores == {10, 100}

RankingEntries ==
    [task_id : 1..(MaxSelTasks + 1), priority_level : {P1, P2, P3, P4},
     priority_score : SelScores]

\* tasks_by_priority[level]: the rankings of that level whose task_id is in task_map
tasks_by_priority(ts, rks, level) ==
    LET InBucket(e) == e.task_id \in ts /\ e.priority_level = level
    IN  SelectSeq(rks, InBucket)

RECURSIVE InsertDesc_before_equal(_, _)
InsertDesc_before_equal(e, s) ==
    IF s = <<>> THEN <<e>>
    ELSE IF Head(s).priority_score > e.priority_score
         THEN <<Head(s)>> \o InsertDesc_before_equal(e, Tail(s))
         ELSE <<e>> \o s

RECURSIVE InsertDesc(_, _)
InsertDesc(e, s) ==
    IF s = <<>> THEN <<e>>
    ELSE IF Head(s).priority_score >= e.priority_score
         THEN <<Head(s)>> \o InsertDesc(e, Tail(s))
         ELSE <<e>> \o s

\* list.sort(key=lambda x: x[1].priority_score, reverse=True): stable
RECURSIVE sort_by_score(_)
sort_by_score(s) ==
    IF s = <<>> THEN <<>>
    ELSE InsertDesc(s[Len(s)], sort_by_score(SubSeq(s, 1, Len(s) - 1)))

bucket_order_reversed == <<P4, P3, P2, P1>>

\* for priority_level in ['P1', 'P2', 'P3', 'P4']
bucket_order == <<P1, P2, P3, P4>>

\* the inner loop: append the bucket's tasks until limit is reached
RECURSIVE take_bucket(_, _, _)
take_bucket(bucket, sel, lim) ==
    IF bucket = <<>> \/ Len(sel) >= lim THEN sel
    ELSE take_bucket(Tail(bucket), Append(sel, Head(bucket).task_id), lim)

\* the outer loop over the buckets
RECURSIVE fill_buckets(_, _, _, _, _)
fill_buckets(levels, ts, rks, sel, lim) ==
    IF levels = <<>> \/ Len(sel) >= lim THEN sel
    ELSE fill_buckets(Tail(levels), ts, rks,
                      take_bucket(sort_by_score(tasks_by_priority(ts, rks, Head(levels))),
                                  sel, lim),
                      lim)

select_top(ts, rks, lim) == fill_buckets(bucket_order, ts, rks, <<>>, lim)

SelIdle ==
    /\ all_tasks = {}
    /\ rankings = <<>>
    /\ limit = 0
    /\ selected_tasks = <<>>
    /\ sel_pc = "idle"
    /\ final_ordered_tasks = <<>>
    /\ ordered_tasks = <<>>

SelInit ==
    /\ all_tasks = 1..MaxSelTasks
    /\ rankings \in UNION {[1..n -> RankingEntries] : n \in 0..MaxRankLen}
    /\ limit \in 0..MaxRankLen
    /\ selected_tasks = <<>>
    /\ sel_pc = "ready"
    /\ final_ordered_tasks = <<>>
    /\ ordered_tasks = <<>>

select_top_tasks ==
    /\ sel_pc = "ready"
    /\ selected_tasks' = select_top(all_tasks, rankings, limit)
    /\ sel_pc' = "done"
    /\ UNCHANGED <<all_tasks, rankings, limit, final_ordered_tasks, ordered_tasks>>
    /\ UNCHANGED <<valVars, rankVars, c_call, limVars, runVars, batchVars, reportVars, todayVars, dateVars, startVars, lookVars, apiVars, twVars, inboxVars>>

\* the selection step run once more on the same task list, rankings and limit
select_top_tasks_again ==
    /\ sel_pc = "done"
    /\ selected_tasks' = select_top(all_tasks, rankings, limit)
    /\ sel_pc' = "again"
    /\ UNCHANGED <<all_tasks, rankings, limit, final_ordered_tasks, ordered_tasks>>
    /\ UNCHANGED <<valVars, rankVars, c_call, limVars, runVars, batchVars, reportVars, todayVars, dateVars, startVars, lookVars, apiVars, twVars, inboxVars>>

\* PriorityRankings.get_ranking_for_task: the first ranking of the task
get_ranking_for_task(rks, id) ==
    LET hits == {k \in 1..Len(rks) : rks[k].task_id = id}
    IN  IF hits = {} THEN None
        ELSE rks[CHOOSE k \in hits : \A other \in hits : k <= other]

\* {'task': task, 'priority': ranking.todoist_priority, 'score': ranking.priority_score}
OrderItem(id, ranking) ==
    [task |-> id, priority |-> TaskPriority_todoist_priority(ranking.priority_level),
     score |-> ranking.priority_score]

\* Today mode, before the sort: one item per selected task that has a ranking
RECURSIVE ordered_tasks_list(_, _)
ordered_tasks_list(sel, rks) ==
    IF sel = <<>> THEN <<>>
    ELSE LET ranking == get_ranking_for_task(rks, Head(sel))
         IN  (IF ranking = None THEN <<>> ELSE <<OrderItem(Head(sel), ranking)>>)
                 \o ordered_tasks_list(Tail(sel), rks)

\* plain mode, before the sort: one item per ranking whose task_id is in task_map
RECURSIVE ranked_tasks_list(_, _)
ranked_tasks_list(ts, rks) ==
    IF rks = <<>> THEN <<>>
    ELSE (IF Head(rks).task_id \in ts THEN <<OrderItem(Head(rks).task_id, Head(rks))>>
          ELSE <<>>)
             \o ranked_tasks_list(ts, Tail(rks))

key_ge_score_only(x, e) == x.score >= e.score

\* (x['priority'], x['score']) >= (e['priority'], e['score'])
key_ge(x, e) ==
    x.priority > e.priority \/ (x.priority = e.priority /\ x.score >= e.score)

RECURSIVE InsertByKey(_, _)
InsertByKey(e, s) ==
    IF s = <<>> THEN <<e>>
    ELSE IF key_ge(Head(s), e)
         THEN <<Head(s)>> \o InsertByKey(e, Tail(s))
         ELSE <<e>> \o s

\* list.sort(key=lambda x: (x['priority'], x['score']), reverse=True): stable
RECURSIVE sort_by_priority_and_score(_)
sort_by_priority_and_score(s) ==
    IF s = <<>> THEN <<>>
    ELSE InsertByKey(s[Len(s)], sort_by_priority_and_score(SubSeq(s, 1, Len(s) - 1)))

\* the sort before reorder_tasks, in the Today mode and in the plain mode
order_tasks ==
    /\ sel_pc = "again"
    /\ final_ordered_tasks' =
          sort_by_priority_and_score(ordered_tasks_list(selected_tasks, rankings))
    /\ ordered_tasks' = sort_by_priority_and_score(ranked_tasks_list(all_tasks, rankings))
    /\ sel_pc' = "ordered"
    /\ UNCHANGED <<all_tasks, rankings, limit, selected_tasks>>
    /\ UNCHANGED <<valVars, rankVars, c_call, limVars, runVars, batchVars, reportVars, todayVars, dateVars, startVars, lookVars, apiVars, twVars, inboxVars>>

SelNext ==
    \/ select_top_tasks
    \/ select_top_tasks_again
    \/ order_tasks

(***************************************************************************)
(* main.py: one run of the command line in one of its three modes.  The     *)
(* lists the run works on are kept by their length only.                    *)
(***************************************************************************)
Modes == {"rank", "today", "inbox"}

MutatingKinds == {"priority", "due_date", "move", "reorder"}

\* the requests a client call sent, by kind
SentBy(req, r) == IF r.attempts # NoAttempts THEN {req} ELSE {}

\* TodoistClient.batch_update_priorities over n items
batch_update_priorities(n, priority, dry_run, outs) ==
    IF n = 0 THEN {} ELSE SentBy("priority", update_task_priority(priority, dry_run, outs))

\* TodoistClient.batch_update_due_dates over n items
batch_update_due_dates(n, dry_run, outs) ==
    IF n = 0 THEN {} ELSE SentBy("due_date", update_task_due_date(dry_run, outs))

\* TodoistClient.batch_move_tasks over n items
batch_move_tasks(n, dry_run) ==
    IF n = 0 \/ dry_run THEN {} ELSE {"move"}

\* the write steps after the confirmation, in the order of the code
write_phases(m) ==
    CASE m = "rank" -> <<"priority", "reorder">>
      [] m = "today" -> <<"due_today", "due_tomorrow", "priority", "reorder">>
      [] m = "inbox" -> <<"move", "due_date", "priority">>

\* one write step over a list of n items; every call site leaves dry_run at
\* its default False or passes dry_run=False
phase_requests(ph, n, priority, outs) ==
    CASE ph = "priority" -> batch_update_priorities(n, priority, FALSE, outs)
      [] ph \in {"due_today", "due_tomorrow", "due_date"} -> batch_update_due_dates(n, FALSE, outs)
      [] ph = "move" -> batch_move_tasks(n, FALSE)
      [] ph = "reorder" -> SentBy("reorder", reorder_tasks(n, FALSE, outs))

dry_run_ignored(dry_run) == FALSE

\* if dry_run: ... return 0
dry_run_returns(dry_run) == dry_run

\* what input() may return at the prompt
Answers == {<<"y">>, <<"Y", " ">>, <<"n">>, <<>>, <<"y", "e", "s">>}

NotAsked == [asked |-> FALSE, text |-> <<>>]

confirmed_unless_no(answer) == answer # <<"n">>

\* the negation of `if confirmation != 'y'`
confirmed(answer) == answer = <<"y">>

RunIdle ==
    /\ mode = "rank"
    /\ run_dry_run = FALSE
    /\ pc = "idle"
    /\ phase = 1
    /\ outcome = "none"
    /\ confirmation = NotAsked
    /\ sent = {}

RunInit ==
    /\ mode \in Modes
    /\ run_dry_run \in BOOLEAN
    /\ pc = "fetch"
    /\ phase = 1
    /\ outcome = "none"
    /\ confirmation = NotAsked
    /\ sent = {}

Exit(how) ==
    /\ pc' = "exit"
    /\ outcome' = how

\* the exit code of the run
exit_code(how) == IF how \in {"failed", "interrupted"} THEN 1 ELSE 0

\* Step 1: the reads.  get_tasks raises when its request fails; the inbox
\* mode also stops when no inbox project is found
run_fetch ==
    /\ pc = "fetch"
    /\ \E outs \in [1..stop_after_attempt -> TodoistOutcomes], found \in {"none", "empty", "tasks"} :
          IF get_tasks(outs).result = "raised" \/ (mode = "inbox" /\ found = "none")
          THEN Exit("failed")
          ELSE IF found # "tasks"
          THEN Exit("nothing_to_do")
          ELSE pc' = "rank" /\ UNCHANGED outcome
    /\ UNCHANGED <<mode, run_dry_run, phase, confirmation, sent>>
    /\ UNCHANGED <<valVars, rankVars, c_call, limVars, selVars, batchVars, reportVars, todayVars, dateVars, startVars, lookVars, apiVars, twVars, inboxVars>>

\* the ranking, the summary, and the return of a dry run
run_rank ==
    /\ pc = "rank"
    /\ IF dry_run_returns(run_dry_run)
       THEN Exit("dry_run_done")
       ELSE pc' = "confirm" /\ UNCHANGED outcome
    /\ UNCHANGED <<mode, run_dry_run, phase, confirmation, sent>>
    /\ UNCHANGED <<valVars, rankVars, c_call, limVars, selVars, batchVars, reportVars, todayVars, dateVars, startVars, lookVars, apiVars, twVars, inboxVars>>

\* confirmation = input().strip().lower()
run_confirm ==
    /\ pc = "confirm"
    /\ \E answer \in Answers :
          /\ confirmation' = [asked |-> TRUE, text |-> Lower(Strip(answer))]
          /\ IF ~confirmed(Lower(Strip(answer)))
             THEN Exit("cancelled")
             ELSE pc' = "write" /\ UNCHANGED outcome
    /\ UNCHANGED <<mode, run_dry_run, phase, sent>>
    /\ UNCHANGED <<valVars, rankVars, c_call, limVars, selVars, batchVars, reportVars, todayVars, dateVars, startVars, lookVars, apiVars, twVars, inboxVars>>

\* one write step of the mode
run_write ==
    /\ pc = "write"
    /\ phase <= Len(write_phases(mode))
    /\ \E n \in 0..MaxItems, priority \in 1..4,
          outs \in [1..stop_after_attempt -> TodoistOutcomes] :
          sent' = sent \cup phase_requests(write_phases(mode)[phase], n, priority, outs)
    /\ phase' = phase + 1
    /\ UNCHANGED <<mode, run_dry_run, pc, outcome, confirmation>>
    /\ UNCHANGED <<valVars, rankVars, c_call, limVars, selVars, batchVars, reportVars, todayVars, dateVars, startVars, lookVars, apiVars, twVars, inboxVars>>

\* return 0 after the last write step
run_return ==
    /\ pc = "write"
    /\ phase > Len(write_phases(mode))
    /\ Exit("applied")
    /\ UNCHANGED <<mode, run_dry_run, phase, confirmation, sent>>
    /\ UNCHANGED <<valVars, rankVars, c_call, limVars, selVars, batchVars, reportVars, todayVars, dateVars, startVars, lookVars, apiVars, twVars, inboxVars>>

\* except KeyboardInterrupt: return 1
run_interrupted ==
    /\ pc \in {"fetch", "rank", "confirm", "write"}
    /\ Exit("interrupted")
    /\ UNCHANGED <<mode, run_dry_run, phase, confirmation, sent>>
    /\ UNCHANGED <<valVars, rankVars, c_call, limVars, selVars, batchVars, reportVars, todayVars, dateVars, startVars, lookVars, apiVars, twVars, inboxVars>>

\* any other caller of the client's methods, with either value of dry_run
client_call ==
    /\ pc = "exit"
    /\ ClientNext

RunNext ==
    \/ run_fetch
    \/ run_rank
    \/ run_confirm
    \/ run_write
    \/ run_return
    \/ run_interrupted
    \/ client_call

(***************************************************************************)
(* TodoistClient.batch_update_priorities / batch_update_due_dates: one call *)
(* over any list of updates, item by item.                                  *)
(***************************************************************************)
DueStrings == {"today", "tomorrow", "none"}

BatchItems(op) == IF op = "priorities" THEN 0..5 ELSE DueStrings

tally_successes_only(results, ok) ==
    IF ok THEN [results EXCEPT !.successful = @ + 1] ELSE results

\* results['successful'] += 1 / results['failed'] += 1
tally(results, ok) ==
    IF ok THEN [results EXCEPT !.successful = @ + 1]
    ELSE [results EXCEPT !.failed = @ + 1]

BatchIdle ==
    /\ b_op = "priorities"
    /\ b_updates = <<>>
    /\ b_dry_run = FALSE
    /\ b_idx = 0
    /\ b_results = [successful |-> 0, failed |-> 0]
    /\ b_log = <<>>
    /\ b_pc = "idle"

BatchInit ==
    /\ b_op \in {"priorities", "due_dates"}
    /\ b_updates \in UNION {[1..n -> BatchItems(b_op)] : n \in 0..MaxItems}
    /\ b_dry_run \in BOOLEAN
    /\ b_idx = 0
    /\ b_results = [successful |-> 0, failed |-> 0]
    /\ b_log = <<>>
    /\ b_pc = "loop"

\* the update call the loop makes for one item
batch_update_call(op, item, dry_run, outs) ==
    IF op = "priorities"
    THEN update_task_priority(item, dry_run, outs)
    ELSE update_task_due_date(dry_run, outs)

\* one iteration of `for task_id, ... in updates`; an exception leaving the
\* update call would leave the batch too
batch_update_item ==
    /\ b_pc = "loop"
    /\ b_idx < Len(b_updates)
    /\ \E outs \in [1..stop_after_attempt -> TodoistOutcomes] :
          LET r == batch_update_call(b_op, b_updates[b_idx + 1], b_dry_run, outs)
          IN  /\ b_log' = Append(b_log, [item |-> b_idx + 1, result |-> r.result,
                                         requests |-> Len(r.attempts)])
              /\ IF r.result \in {"True", "False"}
                 THEN /\ b_results' = tally(b_results, r.result = "True")
                      /\ b_idx' = b_idx + 1
                      /\ UNCHANGED b_pc
                 ELSE /\ b_pc' = "raised"
                      /\ UNCHANGED <<b_results, b_idx>>
    /\ UNCHANGED <<b_op, b_updates, b_dry_run>>
    /\ UNCHANGED <<valVars, rankVars, c_call, limVars, selVars, runVars, reportVars, todayVars, dateVars, startVars, lookVars, apiVars, twVars, inboxVars>>

\* return results
batch_update_return ==
    /\ b_pc = "loop"
    /\ b_idx = Len(b_updates)
    /\ b_pc' = "returned"
    /\ UNCHANGED <<b_op, b_updates, b_dry_run, b_idx, b_results, b_log>>
    /\ UNCHANGED <<valVars, rankVars, c_call, limVars, selVars, runVars, reportVars, todayVars, dateVars, startVars, lookVars, apiVars, twVars, inboxVars>>

BatchNext ==
    \/ batch_update_item
    \/ batch_update_return

(***************************************************************************)
(* main.py: what a run reports after the ranking or the organization came   *)
(* back.  kind = "rank" is the plain and the Today mode (the same code),    *)
(* kind = "org" the inbox mode.                                             *)
(***************************************************************************)
NoReport == [done |-> FALSE, invoked |-> FALSE, listed |-> {}]

ReportIdle == report = NoReport

\* if summary['ranked_tasks'] < summary['total_tasks']
report_needed(ranked, total) == ranked < total

\* print_missing_tasks: the ids it prints under "Missing Task IDs"
print_missing_tasks(ts, rks) == Range(ts) \ SeqIds(rks)

\* the step between the return of the ranker and the summary; the inbox mode
\* prints a count and never calls print_missing_tasks
report_missing ==
    /\ rpc = "done"
    /\ ~report.done
    /\ report' =
          IF kind = "rank" /\ report_needed(Len(returned), Len(tasks))
          THEN [done |-> TRUE, invoked |-> TRUE, listed |-> print_missing_tasks(tasks, returned)]
          ELSE [done |-> TRUE, invoked |-> FALSE, listed |-> {}]
    /\ UNCHANGED <<valVars, rankVars, c_call, limVars, selVars, runVars, batchVars, todayVars, dateVars, startVars, lookVars, apiVars, twVars, inboxVars>>

ReportNext ==
    \/ orchestrator_entry
    \/ rank_tasks_batch
    \/ organize_inbox_tasks_batch
    \/ orchestrator_return
    \/ report_missing

(***************************************************************************)
(* main.py, organize_today_view, Steps 4 to 9 on fetched tasks that are     *)
(* recurring or not and carry a priority, each ranked at most once.         *)
(***************************************************************************)
TaskAttributes == [is_recurring : BOOLEAN, priority : {1, 4}]

\* the answers for one task: no ranking, or one of two levels
RankingChoices == {"none", "P1", "P4"}

\* rankings.rankings when task k got the answer choice[k]
RECURSIVE RankingsFrom(_, _)
RankingsFrom(choice, k) ==
    IF k > Len(choice) THEN <<>>
    ELSE (IF choice[k] = "none" THEN <<>>
          ELSE <<[task_id |-> k, priority_level |-> IF choice[k] = "P1" THEN P1 ELSE P4,
                  priority_score |-> 50]>>)
             \o RankingsFrom(choice, k + 1)

\* the ids of a set in increasing order
RECURSIVE InIdOrder(_)
InIdOrder(ids) ==
    IF ids = {} THEN <<>>
    ELSE LET least == CHOOSE x \in ids : \A y \in ids : x <= y
         IN  <<least>> \o InIdOrder(ids \ {least})

NoWrites == [due_today |-> <<>>, due_tomorrow |-> <<>>, priority |-> <<>>, reorder |-> <<>>]

TodayIdle ==
    /\ t_tasks = <<>>
    /\ t_current = <<>>
    /\ t_rankings = <<>>
    /\ t_limit = 0
    /\ t_selected = <<>>
    /\ tasks_to_add = <<>>
    /\ tasks_to_remove = <<>>
    /\ t_writes = NoWrites
    /\ t_pc = "idle"

TodayInit ==
    /\ t_tasks \in [1..MaxSelTasks -> TaskAttributes]
    /\ t_current \in {InIdOrder(ids) : ids \in SUBSET (1..MaxSelTasks)}
    /\ t_rankings \in {RankingsFrom(choice, 1) : choice \in [1..MaxSelTasks -> RankingChoices]}
    /\ t_limit \in 0..MaxSelTasks
    /\ t_selected = <<>>
    /\ tasks_to_add = <<>>
    /\ tasks_to_remove = <<>>
    /\ t_writes = NoWrites
    /\ t_pc = "ranked"

\* [t for t in selected_tasks if t.id not in current_today_ids]
compute_tasks_to_add(sel, current) ==
    LET NotInToday(id) == id \notin Range(current)
    IN  SelectSeq(sel, NotInToday)

compute_tasks_to_remove_ranked_only(current, sel) ==
    LET Dropped(id) == id \notin Range(sel) /\ get_ranking_for_task(t_rankings, id) # None
    IN  SelectSeq(current, Dropped)

\* [t for t in current_today_tasks if t.id not in selected_task_ids]
compute_tasks_to_remove(current, sel) ==
    LET NotSelected(id) == id \notin Range(sel)
    IN  SelectSeq(current, NotSelected)

\* Steps 4 and 5: the selection, then the tasks to add and to remove
today_select ==
    /\ t_pc = "ranked"
    /\ LET sel == select_top(DOMAIN t_tasks, t_rankings, t_limit)
       IN  /\ t_selected' = sel
           /\ tasks_to_add' = compute_tasks_to_add(sel, t_current)
           /\ tasks_to_remove' = compute_tasks_to_remove(t_current, sel)
    /\ t_pc' = "diffed"
    /\ UNCHANGED <<t_tasks, t_current, t_rankings, t_limit, t_writes>>
    /\ UNCHANGED <<valVars, rankVars, c_call, limVars, selVars, runVars, batchVars, reportVars, dateVars, startVars, lookVars, apiVars, twVars, inboxVars>>

keep_recurring(ts) == ts

\* [task for task in ... if not task.is_recurring]
non_recurring(ts) ==
    LET NotRecurring(id) == ~t_tasks[id].is_recurring
    IN  SelectSeq(ts, NotRecurring)

RECURSIVE priority_updates_all_ranked(_)
priority_updates_all_ranked(sel) ==
    IF sel = <<>> THEN <<>>
    ELSE LET ranking == get_ranking_for_task(t_rankings, Head(sel))
         IN  (IF ranking # None
              THEN <<<<Head(sel), TaskPriority_todoist_priority(ranking.priority_level)>>>>
              ELSE <<>>)
                 \o priority_updates_all_ranked(Tail(sel))

\* Step 8: (task.id, ranking.todoist_priority) for the selected tasks whose
\* priority differs from the ranked one
RECURSIVE priority_updates(_)
priority_updates(sel) ==
    IF sel = <<>> THEN <<>>
    ELSE LET ranking == get_ranking_for_task(t_rankings, Head(sel))
         IN  (IF ranking # None
                 /\ t_tasks[Head(sel)].priority
                       # TaskPriority_todoist_priority(ranking.priority_level)
              THEN <<<<Head(sel), TaskPriority_todoist_priority(ranking.priority_level)>>>>
              ELSE <<>>)
                 \o priority_updates(Tail(sel))

\* [item['task'] for item in ordered_tasks_list]
TasksOf(items) == [k \in 1..Len(items) |-> items[k].task]

\* Steps 6 to 9, after the confirmation: the lists the client is called with
\* (a call with an empty list is not made)
today_apply ==
    /\ t_pc = "diffed"
    /\ t_writes' =
          [due_today |-> non_recurring(t_selected),
           due_tomorrow |-> non_recurring(tasks_to_remove),
           priority |-> priority_updates(t_selected),
           reorder |-> TasksOf(sort_by_priority_and_score(
                                   ordered_tasks_list(t_selected, t_rankings)))]
    /\ t_pc' = "applied"
    /\ UNCHANGED <<t_tasks, t_current, t_rankings, t_limit, t_selected, tasks_to_add,
                   tasks_to_remove>>
    /\ UNCHANGED <<valVars, rankVars, c_call, limVars, selVars, runVars, batchVars, reportVars, dateVars, startVars, lookVars, apiVars, twVars, inboxVars>>

\* the next run fetches the tasks again: the priority writes that succeeded
\* show in the new snapshot
today_refetch ==
    /\ t_pc = "applied"
    /\ \E succeeded \in SUBSET (1..Len(t_writes.priority)) :
          t_tasks' = [id \in DOMAIN t_tasks |->
             IF \E k \in succeeded : t_writes.priority[k][1] = id
             THEN [t_tasks[id] EXCEPT !.priority =
                      t_writes.priority[CHOOSE k \in succeeded :
                                           t_writes.priority[k][1] = id][2]]
             ELSE t_tasks[id]]
    /\ t_pc' = "refetched"
    /\ UNCHANGED <<t_current, t_rankings, t_limit, t_selected, tasks_to_add,
                   tasks_to_remove, t_writes>>
    /\ UNCHANGED <<valVars, rankVars, c_call, limVars, selVars, runVars, batchVars, reportVars, dateVars, startVars, lookVars, apiVars, twVars, inboxVars>>

\* Step 8 of the next run, with the same rankings and selection
today_priorities_again ==
    /\ t_pc = "refetched"
    /\ t_writes' = [t_writes EXCEPT !.priority = priority_updates(t_selected)]
    /\ t_pc' = "rerun"
    /\ UNCHANGED <<t_tasks, t_current, t_rankings, t_limit, t_selected, tasks_to_add,
                   tasks_to_remove>>
    /\ UNCHANGED <<valVars, rankVars, c_call, limVars, selVars, runVars, batchVars, reportVars, dateVars, startVars, lookVars, apiVars, twVars, inboxVars>>

TodayNext ==
    \/ today_select
    \/ today_apply
    \/ today_refetch
    \/ today_priorities_again

(***************************************************************************)
(* main.py: normalize_date_for_comparison and dates_are_equivalent.  Date   *)
(* strings are sequences of characters; strptime parses them and strftime   *)
(* writes them.                                                             *)
(***************************************************************************)
DigitChars == <<"0", "1", "2", "3", "4", "5", "6", "7", "8", "9">>

IsDigit(c) == \E k \in 1..Len(DigitChars) : DigitChars[k] = c

DigitValue(c) == (CHOOSE k \in 1..Len(DigitChars) : DigitChars[k] = c) - 1

AllDigits(s) == \A k \in 1..Len(s) : IsDigit(s[k])

RECURSIVE ParseInt(_)
ParseInt(s) ==
    IF s = <<>> THEN 0
    ELSE ParseInt(SubSeq(s, 1, Len(s) - 1)) * 10 + DigitValue(s[Len(s)])

IsLeap(y) == (y % 4 = 0 /\ y % 100 # 0) \/ y % 400 = 0

DaysInMonth(y, m) ==
    IF m = 2 THEN (IF IsLeap(y) THEN 29 ELSE 28)
    ELSE IF m \in {4, 6, 9, 11} THEN 30 ELSE 31

NotADate == [ok |-> FALSE, y |-> 0, m |-> 0, d |-> 0]

\* datetime.strptime(s, "%Y-%m-%d"): four digits, one or two digits for the
\* month, one or two digits (or a space and a digit) for the day, and the
\* date must exist; anything else is a ValueError
strptime(s) ==
    LET dashes == {k \in 1..Len(s) : s[k] = "-"}
    IN  IF Cardinality(dashes) # 2 THEN NotADate
        ELSE LET d1 == CHOOSE k \in dashes : \A o \in dashes : k <= o
                 d2 == CHOOSE k \in dashes : \A o \in dashes : k >= o
                 ys == SubSeq(s, 1, d1 - 1)
                 ms == SubSeq(s, d1 + 1, d2 - 1)
                 ds0 == SubSeq(s, d2 + 1, Len(s))
                 ds == IF Len(ds0) = 2 /\ ds0[1] = " " THEN SubSeq(ds0, 2, 2) ELSE ds0
             IN  IF /\ Len(ys) = 4 /\ AllDigits(ys) /\ ParseInt(ys) >= 1
                    /\ Len(ms) \in {1, 2} /\ AllDigits(ms) /\ ParseInt(ms) \in 1..12
                    /\ Len(ds) \in {1, 2} /\ AllDigits(ds)
                    /\ ParseInt(ds) \in 1..DaysInMonth(ParseInt(ys), ParseInt(ms))
                 THEN [ok |-> TRUE, y |-> ParseInt(ys), m |-> ParseInt(ms), d |-> ParseInt(ds)]
                 ELSE NotADate

TwoDigits(n) == <<DigitChars[(n \div 10) + 1], DigitChars[(n % 10) + 1]>>

\* date.strftime("%Y-%m-%d"), for years of four digits
strftime(dt) ==
    TwoDigits(dt.y \div 100) \o TwoDigits(dt.y % 100) \o <<"-">> \o TwoDigits(dt.m)
        \o <<"-">> \o TwoDigits(dt.d)

NextDay(dt) ==
    IF dt.d < DaysInMonth(dt.y, dt.m) THEN [dt EXCEPT !.d = @ + 1]
    ELSE IF dt.m < 12 THEN [y |-> dt.y, m |-> dt.m + 1, d |-> 1]
    ELSE [y |-> dt.y + 1, m |-> 1, d |-> 1]

PrevDay(dt) ==
    IF dt.d > 1 THEN [dt EXCEPT !.d = @ - 1]
    ELSE IF dt.m > 1 THEN [y |-> dt.y, m |-> dt.m - 1, d |-> DaysInMonth(dt.y, dt.m - 1)]
    ELSE [y |-> dt.y - 1, m |-> 12, d |-> 31]

\* date + timedelta(days=k)
RECURSIVE AddDays(_, _)
AddDays(dt, k) ==
    IF k = 0 THEN dt
    ELSE IF k > 0 THEN AddDays(NextDay(dt), k - 1)
    ELSE AddDays(PrevDay(dt), k + 1)

W_today == <<"t", "o", "d", "a", "y">>
W_tomorrow == <<"t", "o", "m", "o", "r", "r", "o", "w">>
W_yesterday == <<"y", "e", "s", "t", "e", "r", "d", "a", "y">>
W_next_week == <<"n", "e", "x", "t", " ", "w", "e", "e", "k">>
W_in_a_week == <<"i", "n", " ", "a", " ", "w", "e", "e", "k">>
W_next_month == <<"n", "e", "x", "t", " ", "m", "o", "n", "t", "h">>
W_in_a_month == <<"i", "n", " ", "a", " ", "m", "o", "n", "t", "h">>
W_none == <<"n", "o", "n", "e">>
W_null == <<"n", "u", "l", "l">>

Str(chars) == [tag |-> "str", s |-> chars]

NotRelative == [known |-> FALSE, days |-> 0]

relative_days_short_week(t) ==
    IF t = W_today THEN [known |-> TRUE, days |-> 0]
    ELSE IF t = W_tomorrow THEN [known |-> TRUE, days |-> 1]
    ELSE IF t = W_yesterday THEN [known |-> TRUE, days |-> 0 - 1]
    ELSE IF t \in {W_next_week, W_in_a_week} THEN [known |-> TRUE, days |-> 6]
    ELSE IF t \in {W_next_month, W_in_a_month} THEN [known |-> TRUE, days |-> 30]
    ELSE NotRelative

\* the chain of `if date_str == "today": ... elif ...`: the timedelta added to
\* the reference date
relative_days(t) ==
    IF t = W_today THEN [known |-> TRUE, days |-> 0]
    ELSE IF t = W_tomorrow THEN [known |-> TRUE, days |-> 1]
    ELSE IF t = W_yesterday THEN [known |-> TRUE, days |-> 0 - 1]
    ELSE IF t \in {W_next_week, W_in_a_week} THEN [known |-> TRUE, days |-> 7]
    ELSE IF t \in {W_next_month, W_in_a_month} THEN [known |-> TRUE, days |-> 30]
    ELSE NotRelative

\* Python's `not date_str` for None or a string
Falsy(x) == x.tag = "none" \/ x.s = <<>>

\* normalize_date_for_comparison(date_str) with reference_date left out, as
\* dates_are_equivalent calls it; now is datetime.now().date()
normalize_date_for_comparison(date_str, now) ==
    IF Falsy(date_str) THEN None
    ELSE LET t == Lower(Strip(date_str.s))
         IN  IF t = <<>> \/ t \in {W_none, W_null} THEN None
             ELSE IF strptime(t).ok THEN Str(t)
             ELSE IF relative_days(t).known
                  THEN Str(strftime(AddDays(now, relative_days(t).days)))
                  ELSE None

fallback_equal_case_sensitive(date1, date2) == Strip(date1.s) = Strip(date2.s)

\* date1.strip().lower() == date2.strip().lower()
fallback_equal(date1, date2) == Lower(Strip(date1.s)) = Lower(Strip(date2.s))

dates_are_equivalent(date1, date2, now) ==
    IF Falsy(date1) /\ Falsy(date2) THEN TRUE
    ELSE IF Falsy(date1) \/ Falsy(date2) THEN FALSE
    ELSE LET normalized1 == normalize_date_for_comparison(date1, now)
             normalized2 == normalize_date_for_comparison(date2, now)
         IN  IF ~Falsy(normalized1) /\ ~Falsy(normalized2) THEN normalized1 = normalized2
             ELSE IF Falsy(normalized1) # Falsy(normalized2) THEN FALSE
             ELSE fallback_equal(date1, date2)

Date(y, m, d) == [y |-> y, m |-> m, d |-> d]

NowDates == {Date(2025, 1, 1), Date(2025, 2, 28), Date(2025, 12, 31), Date(2024, 2, 28)}

\* the ISO date without the zero padding, which strptime accepts too
Unpadded(dt) ==
    LET Digits(n) == IF n < 10 THEN <<DigitChars[n + 1]>> ELSE TwoDigits(n)
    IN  TwoDigits(dt.y \div 100) \o TwoDigits(dt.y % 100) \o <<"-">> \o Digits(dt.m)
            \o <<"-">> \o Digits(dt.d)

FixedDateStrings ==
    {W_today, W_tomorrow, W_yesterday, W_next_week, W_in_a_week, W_next_month,
     W_in_a_month, W_none, W_null,
     <<"T", "o", "d", "a", "y", " ">>,
     <<"N", "E", "X", "T", " ", "W", "E", "E", "K">>,
     <<"s", "o", "m", "e", "d", "a", "y">>,
     <<"S", "o", "m", "e", "d", "a", "y", " ">>,
     <<" ">>,
     <<"2", "0", "2", "5", "-", "0", "1", "-", "0", "1">>,
     <<"2", "0", "2", "5", "-", "0", "1", "-", "0", "2">>,
     <<"2", "0", "2", "5", "-", "1", "-", "2">>,
     <<"2", "0", "2", "5", "-", "0", "2", "-", "3", "0">>,
     <<"2", "0", "2", "5", "-", "0", "1", "-", " ", "2">>}

DateInputs(now) ==
    {None, Str(<<>>)} \cup {Str(x) : x \in FixedDateStrings}
        \cup {Str(strftime(AddDays(now, k))) : k \in {0 - 1, 0, 1, 7, 30}}
        \cup {Str(Unpadded(now))}

DatesIdle ==
    /\ d_date1 = None
    /\ d_date2 = None
    /\ d_now = Date(2025, 1, 1)
    /\ d_result = FALSE
    /\ d_pc = "idle"

DatesInit ==
    /\ d_now \in NowDates
    /\ d_date1 \in DateInputs(d_now)
    /\ d_date2 \in DateInputs(d_now)
    /\ d_result = FALSE
    /\ d_pc = "called"

dates_are_equivalent_call ==
    /\ d_pc = "called"
    /\ d_result' = dates_are_equivalent(d_date1, d_date2, d_now)
    /\ d_pc' = "done"
    /\ UNCHANGED <<d_date1, d_date2, d_now>>
    /\ UNCHANGED <<valVars, rankVars, c_call, limVars, selVars, runVars, batchVars, reportVars, todayVars, startVars, lookVars, apiVars, twVars, inboxVars>>

DatesNext == dates_are_equivalent_call

(***************************************************************************)
(* config.py: Settings and get_settings; main.py: the start of main, up to  *)
(* the first remote requests.                                               *)
(***************************************************************************)
MaxRequests == 2

todoist_token_placeholder == "your_todoist_token_here"
openai_key_placeholder == "your_openai_key_here"

\* an environment variable: absent, or present with a value
Unset == [set |-> FALSE, value |-> ""]
EnvValue(v) == [set |-> TRUE, value |-> v]

EnvValues ==
    {Unset, EnvValue(""), EnvValue(todoist_token_placeholder),
     EnvValue(openai_key_placeholder), EnvValue("secret")}

\* Settings(): both fields are required, a missing one raises ValidationError
Settings_raises(token, key) == ~token.set \/ ~key.set

validate_settings_raises_token_only(token, key) ==
    token.value = "" \/ token.value = todoist_token_placeholder

\* Settings.validate_settings raises ValueError
validate_settings_raises(token, key) ==
    \/ token.value = "" \/ token.value = todoist_token_placeholder
    \/ key.value = "" \/ key.value = openai_key_placeholder

StartIdle ==
    /\ env_todoist_api_token = Unset
    /\ env_openai_api_key = Unset
    /\ s_pc = "idle"
    /\ s_exit = 0
    /\ s_todoist_requests = 0
    /\ s_openai_requests = 0

StartInit ==
    /\ env_todoist_api_token \in EnvValues
    /\ env_openai_api_key \in EnvValues
    /\ s_pc = "start"
    /\ s_exit = 0
    /\ s_todoist_requests = 0
    /\ s_openai_requests = 0

\* settings = get_settings(); an exception reaches `except Exception: return 1`
get_settings ==
    /\ s_pc = "start"
    /\ IF \/ Settings_raises(env_todoist_api_token, env_openai_api_key)
          \/ validate_settings_raises(env_todoist_api_token, env_openai_api_key)
       THEN s_pc' = "exit" /\ s_exit' = 1
       ELSE s_pc' = "clients" /\ UNCHANGED s_exit
    /\ UNCHANGED <<env_todoist_api_token, env_openai_api_key, s_todoist_requests, s_openai_requests>>
    /\ UNCHANGED <<valVars, rankVars, c_call, limVars, selVars, runVars, batchVars, reportVars, todayVars, dateVars, lookVars, apiVars, twVars, inboxVars>>

\* TodoistClient(settings) and AIRanker(settings): the constructors store the
\* credentials and send nothing
initialize_clients ==
    /\ s_pc = "clients"
    /\ s_pc' = "running"
    /\ UNCHANGED <<env_todoist_api_token, env_openai_api_key, s_exit, s_todoist_requests, s_openai_requests>>
    /\ UNCHANGED <<valVars, rankVars, c_call, limVars, selVars, runVars, batchVars, reportVars, todayVars, dateVars, lookVars, apiVars, twVars, inboxVars>>

\* a request of the Todoist client
todoist_request ==
    /\ s_pc = "running"
    /\ s_todoist_requests < MaxRequests
    /\ s_todoist_requests' = s_todoist_requests + 1
    /\ UNCHANGED <<env_todoist_api_token, env_openai_api_key, s_pc, s_exit, s_openai_requests>>
    /\ UNCHANGED <<valVars, rankVars, c_call, limVars, selVars, runVars, batchVars, reportVars, todayVars, dateVars, lookVars, apiVars, twVars, inboxVars>>

\* a request of the ranker to the language model
openai_request ==
    /\ s_pc = "running"
    /\ s_openai_requests < MaxRequests
    /\ s_openai_requests' = s_openai_requests + 1
    /\ UNCHANGED <<env_todoist_api_token, env_openai_api_key, s_pc, s_exit, s_todoist_requests>>
    /\ UNCHANGED <<valVars, rankVars, c_call, limVars, selVars, runVars, batchVars, reportVars, todayVars, dateVars, lookVars, apiVars, twVars, inboxVars>>

\* the run ends: return 0, or return 1 from an except clause
main_return ==
    /\ s_pc = "running"
    /\ s_pc' = "exit"
    /\ s_exit' \in {0, 1}
    /\ UNCHANGED <<env_todoist_api_token, env_openai_api_key, s_todoist_requests, s_openai_requests>>
    /\ UNCHANGED <<valVars, rankVars, c_call, limVars, selVars, runVars, batchVars, reportVars, todayVars, dateVars, lookVars, apiVars, twVars, inboxVars>>

StartNext ==
    \/ get_settings
    \/ initialize_clients
    \/ todoist_request
    \/ openai_request
    \/ main_return

(***************************************************************************)
(* models.py: InboxOrganizations with its cached lookup.                    *)
(***************************************************************************)
MaxOrgs == 2
MaxOrgIds == 2
MaxChanges == 1

\* an organization as far as the lookup sees it: its task_id, and a label
\* that tells two organizations of one task apart
OrgElements == [task_id : 1..MaxOrgIds, label : {"a", "b"}]

\* None as the result of dict.get
Absent == [task_id |-> 0, label |-> "none"]

OrgLists == UNION {[1..n -> OrgElements] : n \in 0..MaxOrgs}

\* _task_map = None
NotBuilt == [built |-> FALSE, entries |-> [id \in 1..MaxOrgIds |-> Absent]]

\* {org.task_id: org for org in self.organizations}: of two organizations of
\* one task the later one stays
task_map_comprehension(orgs) ==
    [built |-> TRUE,
     entries |-> [id \in 1..MaxOrgIds |->
        IF \E k \in 1..Len(orgs) : orgs[k].task_id = id
        THEN orgs[CHOOSE k \in 1..Len(orgs) :
                    /\ orgs[k].task_id = id
                    /\ \A o \in 1..Len(orgs) : orgs[o].task_id = id => o <= k]
        ELSE Absent]]

\* _get_task_map: builds the mapping only while _task_map is None
get_task_map(cached, orgs) ==
    IF ~cached.built THEN task_map_comprehension(orgs) ELSE cached

LookupIdle ==
    /\ organizations = <<>>
    /\ task_map = NotBuilt
    /\ lookup_id = 1
    /\ lookup_result = Absent
    /\ changes = 0
    /\ k_pc = "idle"

\* InboxOrganizations(organizations=[...])
LookupInit ==
    /\ organizations \in OrgLists
    /\ task_map = NotBuilt
    /\ lookup_id = 1
    /\ lookup_result = Absent
    /\ changes = 0
    /\ k_pc = "built"

\* return self._get_task_map().get(task_id)
get_organization_for_task ==
    /\ k_pc \in {"built", "looked", "changed"}
    /\ \E id \in 1..MaxOrgIds :
          /\ lookup_id' = id
          /\ task_map' = get_task_map(task_map, organizations)
          /\ lookup_result' = get_task_map(task_map, organizations).entries[id]
    /\ k_pc' = "looked"
    /\ UNCHANGED <<organizations, changes>>
    /\ UNCHANGED <<valVars, rankVars, c_call, limVars, selVars, runVars, batchVars, reportVars, todayVars, dateVars, startVars, apiVars, twVars, inboxVars>>

\* a caller changes the list in place: self.organizations.append(org)
organizations_append ==
    /\ k_pc \in {"built", "looked", "changed"}
    /\ changes < MaxChanges
    /\ Len(organizations) < MaxOrgs
    /\ \E org \in OrgElements : organizations' = Append(organizations, org)
    /\ changes' = changes + 1
    /\ k_pc' = "changed"
    /\ UNCHANGED <<task_map, lookup_id, lookup_result>>
    /\ UNCHANGED <<valVars, rankVars, c_call, limVars, selVars, runVars, batchVars, reportVars, todayVars, dateVars, startVars, apiVars, twVars, inboxVars>>

\* a caller replaces the list: self.organizations = orgs (the model has no
\* validate_assignment and no setter)
organizations_assign ==
    /\ k_pc \in {"built", "looked", "changed"}
    /\ changes < MaxChanges
    /\ \E orgs \in OrgLists : organizations' = orgs
    /\ changes' = changes + 1
    /\ k_pc' = "changed"
    /\ UNCHANGED <<task_map, lookup_id, lookup_result>>
    /\ UNCHANGED <<valVars, rankVars, c_call, limVars, selVars, runVars, batchVars, reportVars, todayVars, dateVars, startVars, apiVars, twVars, inboxVars>>

LookupNext ==
    \/ get_organization_for_task
    \/ organizations_append
    \/ organizations_assign

(***************************************************************************)
(* todoist_client.py: _api_call_with_retry together with the RateLimiter.   *)
(* The retry decorator wraps the whole function, so each attempt runs        *)
(* wait_if_needed and then the request.  The pause of wait_exponential       *)
(* between two attempts only delays the next attempt; the next attempt may   *)
(* start at any later time.                                                  *)
(***************************************************************************)
MaxApiCalls == 2
MaxApiTime == 13

AttemptOutcomes == {"status_200", "status_503", "RequestException"}

rate_limited_first_attempt_only(attempt) == attempt = 1

\* self.rate_limiter.wait_if_needed() is the first statement of the retried
\* function: it runs in every attempt
rate_limited(attempt) == TRUE

ApiIdle ==
    /\ a_pc = "idle"
    /\ a_attempt = 0
    /\ a_calls = 0
    /\ a_log = <<>>

ApiInit == LimInit /\ ApiIdle

\* a client method calls self._api_call_with_retry(...)
api_call_start ==
    /\ a_pc \in {"idle", "done"}
    /\ a_calls < MaxApiCalls
    /\ a_calls' = a_calls + 1
    /\ a_attempt' = 1
    /\ a_pc' = "attempt"
    /\ UNCHANGED a_log
    /\ UNCHANGED <<valVars, rankVars, c_call, limVars, selVars, runVars, batchVars, reportVars, todayVars, dateVars, startVars, lookVars, twVars, inboxVars>>

\* an attempt begins: wait_if_needed is entered
api_attempt_wait ==
    /\ a_pc = "attempt"
    /\ lpc = "idle"
    /\ Len(issued_at) < MaxIssued
    /\ IF rate_limited(a_attempt)
       THEN \E now \in clock..MaxApiTime :
               /\ issued_at' = Append(issued_at, now)
               /\ WaitBody(now)
       ELSE /\ \E now \in clock..MaxApiTime : clock' = now
            /\ UNCHANGED <<calls, lpc, wake_at, issued_at, recorded>>
    /\ a_pc' = "waiting"
    /\ UNCHANGED <<max_calls, period, a_attempt, a_calls, a_log>>
    /\ UNCHANGED <<valVars, rankVars, c_call, selVars, runVars, batchVars, reportVars, todayVars, dateVars, startVars, lookVars, twVars, inboxVars>>

\* time.sleep returned inside wait_if_needed, which calls itself
api_attempt_recheck ==
    /\ a_pc = "waiting"
    /\ lpc = "sleeping"
    /\ \E now \in wake_at..MaxApiTime : WaitBody(now)
    /\ UNCHANGED <<max_calls, period, issued_at, apiVars>>
    /\ UNCHANGED <<valVars, rankVars, c_call, selVars, runVars, batchVars, reportVars, todayVars, dateVars, startVars, lookVars, twVars, inboxVars>>

\* wait_if_needed returned: func(*args, **kwargs) sends the request; a
\* RequestException is retried while attempts are left
api_attempt_send ==
    /\ a_pc = "waiting"
    /\ lpc = "idle"
    /\ \E out \in AttemptOutcomes :
          /\ a_log' = Append(a_log, [call |-> a_calls, attempt |-> a_attempt, at |-> clock])
          /\ IF out \in api_call_retry_on /\ a_attempt < stop_after_attempt
             THEN a_pc' = "attempt" /\ a_attempt' = a_attempt + 1
             ELSE a_pc' = "done" /\ UNCHANGED a_attempt
    /\ UNCHANGED a_calls
    /\ UNCHANGED <<valVars, rankVars, c_call, limVars, selVars, runVars, batchVars, reportVars, todayVars, dateVars, startVars, lookVars, twVars, inboxVars>>

\* wait_if_needed raised IndexError: it is not retried and no request is sent
api_attempt_raised ==
    /\ a_pc = "waiting"
    /\ lpc = "raised"
    /\ lpc' = "idle"
    /\ a_pc' = "done"
    /\ UNCHANGED <<max_calls, period, calls, clock, wake_at, issued_at, recorded>>
    /\ UNCHANGED <<a_attempt, a_calls, a_log>>
    /\ UNCHANGED <<valVars, rankVars, c_call, selVars, runVars, batchVars, reportVars, todayVars, dateVars, startVars, lookVars, twVars, inboxVars>>

ApiNext ==
    \/ api_call_start
    \/ api_attempt_wait
    \/ api_attempt_recheck
    \/ api_attempt_send
    \/ api_attempt_raised

(***************************************************************************)
(* organize_today_view, Steps 6 to 9 (main.py 952-1048): the writes that    *)
(* follow the confirmation.  w_plan holds the four lists the steps work on  *)
(* (the non-recurring selected tasks, the non-recurring removed tasks, the  *)
(* priority updates and the final ordered list); every step hands its list  *)
(* to one batch call, which sends one request per item and records the      *)
(* failures without raising, and the last step sends one reorder command.   *)
(***************************************************************************)
TaskIdsFrom(first, n) == [k \in 1..n |-> first + k - 1]

\* every selected task has a ranking, so the final ordered list holds all
\* of them: the due-date and priority lists are no longer than it; removed
\* tasks are other tasks than the selected ones
TodayPlans ==
    {[due_today |-> TaskIds(a), due_tomorrow |-> TaskIdsFrom(MaxItems + 1, b),
      priority |-> TaskIds(c), reorder |-> TaskIds(r)] :
        <<a, b, c, r>> \in {q \in (0..MaxItems) \X (0..MaxItems) \X (0..MaxItems) \X (0..MaxItems) :
                               q[1] <= q[4] /\ q[3] <= q[4]}}

planned(plan, ph) ==
    CASE ph = "due_today" -> plan.due_today
      [] ph = "due_tomorrow" -> plan.due_tomorrow
      [] ph = "priority" -> plan.priority
      [] ph = "reorder" -> plan.reorder

\* the requests of one step: one per item for the batch calls, a single
\* item_reorder command for a non-empty ordered list, none for an empty list
step_requests(ph, items, oks) ==
    IF ph = "reorder"
    THEN IF items = <<>> THEN <<>>
         ELSE <<[kind |-> ph, task |-> 0, ok |-> oks[1]]>>
    ELSE [k \in 1..Len(items) |-> [kind |-> ph, task |-> items[k], ok |-> oks[k]]]

AnyFailed(reqs) == \E k \in 1..Len(reqs) : ~reqs[k].ok

next_step_stops_on_failure(step, reqs) ==
    IF AnyFailed(reqs) THEN Len(write_phases("today")) + 1 ELSE step + 1

\* a failure only changes the printed counts: the function goes on with
\* the next step
next_step(step, reqs) == step + 1

TodayWritesIdle ==
    /\ w_plan = [due_today |-> <<>>, due_tomorrow |-> <<>>, priority |-> <<>>, reorder |-> <<>>]
    /\ w_step = 0
    /\ w_log = <<>>

TodayWritesInit ==
    /\ w_plan \in TodayPlans
    /\ w_step = 1
    /\ w_log = <<>>

today_write_step ==
    /\ w_step \in 1..Len(write_phases("today"))
    /\ LET ph == write_phases("today")[w_step]
           items == planned(w_plan, ph)
       IN  \E oks \in [1..(IF ph = "reorder" THEN 1 ELSE Len(items)) -> BOOLEAN] :
               LET reqs == step_requests(ph, items, oks)
               IN  /\ w_log' = w_log \o reqs
                   /\ w_step' = next_step(w_step, reqs)
    /\ UNCHANGED w_plan
    /\ UNCHANGED <<valVars, rankVars, c_call, limVars, selVars, runVars, batchVars, reportVars, todayVars, dateVars, startVars, lookVars, apiVars, inboxVars>>

today_write_return ==
    /\ w_step = Len(write_phases("today")) + 1
    /\ w_step' = 0
    /\ UNCHANGED <<w_plan, w_log>>
    /\ UNCHANGED <<valVars, rankVars, c_call, limVars, selVars, runVars, batchVars, reportVars, todayVars, dateVars, startVars, lookVars, apiVars, inboxVars>>

TodayWritesNext ==
    \/ today_write_step
    \/ today_write_return

(***************************************************************************)
(* organize_inbox, the due-date step (main.py 562-579) and the payload of   *)
(* update_task_due_date (todoist_client.py 327-333).  A task is its due     *)
(* field; its suggestion is what get_organization_for_task returns for it,  *)
(* a validated InboxOrganization or None.                                   *)
(***************************************************************************)
MaxInboxTasks == 2

\* task.due is None
NoDue == [present |-> FALSE, string |-> None, date |-> <<>>]

TodoistDueDate(string, date) == [present |-> TRUE, string |-> string, date |-> date]

\* get_organization_for_task(task.id) is None
NoOrg == [has |-> FALSE, due_date |-> None]

W_friday == <<"f", "r", "i", "d", "a", "y">>

InboxNowDates == {Date(2025, 1, 1), Date(2024, 2, 28)}

CurrentDues(now) ==
    {NoDue,
     TodoistDueDate(None, strftime(AddDays(now, 1))),
     TodoistDueDate(Str(W_tomorrow), strftime(AddDays(now, 1))),
     TodoistDueDate(Str(<<"F", "r", "i", "d", "a", "y">>), strftime(AddDays(now, 3)))}

\* the due_date field of a response element, before validation
RawDueDates(now) ==
    {None, Str(W_null), Str(W_none), Str(W_tomorrow), Str(strftime(AddDays(now, 1))),
     Str(W_friday)}

Suggestions(now) ==
    {NoOrg} \cup {[has |-> TRUE, due_date |-> InboxOrganization_validate_optional(f)] :
                     f \in RawDueDates(now)}

\* task.due.string or task.due.date if task.due else None
current_due(due) ==
    IF due.present
    THEN IF ~Falsy(due.string) THEN due.string ELSE Str(due.date)
    ELSE None

needs_due_date_write_plain_compare(org, due, now) ==
    org.has /\ org.due_date # current_due(due)

\* if org: ... if not dates_are_equivalent(org.due_date, current_due)
needs_due_date_write(org, due, now) ==
    org.has /\ ~dates_are_equivalent(org.due_date, current_due(due), now)

RECURSIVE due_date_updates(_, _, _, _)
due_date_updates(k, dues, orgs, now) ==
    IF k > Len(dues) THEN <<>>
    ELSE (IF needs_due_date_write(orgs[k], dues[k], now)
          THEN <<[task |-> k, due_string |-> orgs[k].due_date]>>
          ELSE <<>>) \o due_date_updates(k + 1, dues, orgs, now)

no_date == <<"n", "o", " ", "d", "a", "t", "e">>

\* payload["due_string"] of update_task_due_date
due_string_payload(due_string) ==
    IF ~Falsy(due_string) THEN due_string.s ELSE no_date

InboxIdle ==
    /\ inbox_dues = <<>>
    /\ inbox_orgs = <<>>
    /\ inbox_now = Date(2025, 1, 1)
    /\ inbox_updates = <<>>
    /\ inbox_payloads = <<>>
    /\ inbox_pc = "idle"

InboxInit ==
    /\ inbox_now \in InboxNowDates
    /\ \E n \in 1..MaxInboxTasks :
          /\ inbox_dues \in [1..n -> CurrentDues(inbox_now)]
          /\ inbox_orgs \in [1..n -> Suggestions(inbox_now)]
    /\ inbox_updates = <<>>
    /\ inbox_payloads = <<>>
    /\ inbox_pc = "confirmed"

inbox_collect_due_dates ==
    /\ inbox_pc = "confirmed"
    /\ inbox_updates' = due_date_updates(1, inbox_dues, inbox_orgs, inbox_now)
    /\ inbox_pc' = "collected"
    /\ UNCHANGED <<inbox_dues, inbox_orgs, inbox_now, inbox_payloads>>
    /\ UNCHANGED <<valVars, rankVars, c_call, limVars, selVars, runVars, batchVars, reportVars, todayVars, dateVars, startVars, lookVars, apiVars, twVars>>

\* if due_date_updates: batch_update_due_dates(due_date_updates, dry_run=False)
inbox_batch_update_due_dates ==
    /\ inbox_pc = "collected"
    /\ inbox_payloads' = [k \in 1..Len(inbox_updates) |->
                             [task |-> inbox_updates[k].task,
                              due_string |-> due_string_payload(inbox_updates[k].due_string)]]
    /\ inbox_pc' = "done"
    /\ UNCHANGED <<inbox_dues, inbox_orgs, inbox_now, inbox_updates>>
    /\ UNCHANGED <<valVars, rankVars, c_call, limVars, selVars, runVars, batchVars, reportVars, todayVars, dateVars, startVars, lookVars, apiVars, twVars>>

InboxNext ==
    \/ inbox_collect_due_dates
    \/ inbox_batch_update_due_dates

ValNext == construct_element /\ UNCHANGED <<rankVars, c_call, limVars, selVars, runVars, batchVars, reportVars, todayVars, dateVars, startVars, lookVars, apiVars, twVars, inboxVars>>

InitValidate == ValInit /\ RankIdle /\ ClientIdle /\ LimIdle /\ SelIdle /\ RunIdle /\ BatchIdle /\ ReportIdle /\ TodayIdle /\ DatesIdle /\ StartIdle /\ LookupIdle /\ ApiIdle /\ TodayWritesIdle /\ InboxIdle

SpecValidate == InitValidate /\ [][ValNext]_vars

InitRank == RankInit /\ ValIdle /\ ClientIdle /\ LimIdle /\ SelIdle /\ RunIdle /\ BatchIdle /\ ReportIdle /\ TodayIdle /\ DatesIdle /\ StartIdle /\ LookupIdle /\ ApiIdle /\ TodayWritesIdle /\ InboxIdle

SpecRank == InitRank /\ [][RankNext]_vars

InitClient == ClientIdle /\ ValIdle /\ RankIdle /\ LimIdle /\ SelIdle /\ RunIdle /\ BatchIdle /\ ReportIdle /\ TodayIdle /\ DatesIdle /\ StartIdle /\ LookupIdle /\ ApiIdle /\ TodayWritesIdle /\ InboxIdle

SpecClient == InitClient /\ [][ClientNext]_vars

InitLimiter == LimInit /\ ValIdle /\ RankIdle /\ ClientIdle /\ SelIdle /\ RunIdle /\ BatchIdle /\ ReportIdle /\ TodayIdle /\ DatesIdle /\ StartIdle /\ LookupIdle /\ ApiIdle /\ TodayWritesIdle /\ InboxIdle

SpecLimiter == InitLimiter /\ [][LimNext]_vars

InitSelect == SelInit /\ ValIdle /\ RankIdle /\ ClientIdle /\ LimIdle /\ RunIdle /\ BatchIdle /\ ReportIdle /\ TodayIdle /\ DatesIdle /\ StartIdle /\ LookupIdle /\ ApiIdle /\ TodayWritesIdle /\ InboxIdle

SpecSelect == InitSelect /\ [][SelNext]_vars

InitRun == RunInit /\ ValIdle /\ RankIdle /\ ClientIdle /\ LimIdle /\ SelIdle /\ BatchIdle /\ ReportIdle /\ TodayIdle /\ DatesIdle /\ StartIdle /\ LookupIdle /\ ApiIdle /\ TodayWritesIdle /\ InboxIdle

SpecRun == InitRun /\ [][RunNext]_vars

InitBatch == BatchInit /\ ValIdle /\ RankIdle /\ ClientIdle /\ LimIdle /\ SelIdle /\ RunIdle /\ ReportIdle /\ TodayIdle /\ DatesIdle /\ StartIdle /\ LookupIdle /\ ApiIdle /\ TodayWritesIdle /\ InboxIdle

SpecBatch == InitBatch /\ [][BatchNext]_vars

InitReport == RankInit /\ ReportIdle /\ ValIdle /\ ClientIdle /\ LimIdle /\ SelIdle /\ RunIdle /\ BatchIdle /\ TodayIdle /\ DatesIdle /\ StartIdle /\ LookupIdle /\ ApiIdle /\ TodayWritesIdle /\ InboxIdle

SpecReport == InitReport /\ [][ReportNext]_vars

InitToday == TodayInit /\ ValIdle /\ RankIdle /\ ClientIdle /\ LimIdle /\ SelIdle /\ RunIdle /\ BatchIdle /\ ReportIdle /\ DatesIdle /\ StartIdle /\ LookupIdle /\ ApiIdle /\ TodayWritesIdle /\ InboxIdle

SpecToday == InitToday /\ [][TodayNext]_vars

InitDates == DatesInit /\ ValIdle /\ RankIdle /\ ClientIdle /\ LimIdle /\ SelIdle /\ RunIdle /\ BatchIdle /\ ReportIdle /\ TodayIdle /\ StartIdle /\ LookupIdle /\ ApiIdle /\ TodayWritesIdle /\ InboxIdle

SpecDates == InitDates /\ [][DatesNext]_vars

InitStart == StartInit /\ ValIdle /\ RankIdle /\ ClientIdle /\ LimIdle /\ SelIdle /\ RunIdle /\ BatchIdle /\ ReportIdle /\ TodayIdle /\ DatesIdle /\ LookupIdle /\ ApiIdle /\ TodayWritesIdle /\ InboxIdle

SpecStart == InitStart /\ [][StartNext]_vars

InitLookup == LookupInit /\ ValIdle /\ RankIdle /\ ClientIdle /\ LimIdle /\ SelIdle /\ RunIdle /\ BatchIdle /\ ReportIdle /\ TodayIdle /\ DatesIdle /\ StartIdle /\ ApiIdle /\ TodayWritesIdle /\ InboxIdle

SpecLookup == InitLookup /\ [][LookupNext]_vars

InitApi == ApiInit /\ ValIdle /\ RankIdle /\ ClientIdle /\ SelIdle /\ RunIdle /\ BatchIdle /\ ReportIdle /\ TodayIdle /\ DatesIdle /\ StartIdle /\ LookupIdle /\ TodayWritesIdle /\ InboxIdle

SpecApi == InitApi /\ [][ApiNext]_vars

InitTodayWrites == TodayWritesInit /\ ValIdle /\ RankIdle /\ ClientIdle /\ LimIdle /\ SelIdle /\ RunIdle /\ BatchIdle /\ ReportIdle /\ TodayIdle /\ DatesIdle /\ StartIdle /\ LookupIdle /\ ApiIdle /\ InboxIdle

SpecTodayWrites == InitTodayWrites /\ [][TodayWritesNext]_vars

InitInbox == InboxInit /\ ValIdle /\ RankIdle /\ ClientIdle /\ LimIdle /\ SelIdle /\ RunIdle /\ BatchIdle /\ ReportIdle /\ TodayIdle /\ DatesIdle /\ StartIdle /\ LookupIdle /\ ApiIdle /\ TodayWritesIdle

SpecInbox == InitInbox /\ [][InboxNext]_vars

(***************************************************************************)
(* Claims about the batch orchestrator (SpecRank).                          *)
(***************************************************************************)
Returned == rpc = "done"

\* C1: the collection returned by rank_tasks / organize_inbox_tasks holds no
\* element whose task_id is not the id of an input task.
C1_NoFabricatedResults ==
    Returned => \A k \in 1..Len(returned) : returned[k].task_id \in Range(tasks)

IndividuallyValid(elems) == {k \in 1..Len(elems) : TaskPriority(elems[k]).ok}

\* C2: for a ranking batch whose response is valid JSON with a rankings array
\* of m elements, k of them invalid, rank_tasks keeps exactly the m - k valid
\* scores of that batch.
C2_PartialValidationRecovery ==
    kind = "rank" =>
        \A c \in 1..Len(chunk_log) :
            chunk_log[c].resp.outcome = "ok" =>
                Len(chunk_log[c].added) = Cardinality(IndividuallyValid(chunk_log[c].resp.elems))

BatchScopeFailure(resp) == resp.outcome \in {"raise", "badjson", "nokey"}

NumChunks == (Len(tasks) + batch_size - 1) \div batch_size

RECURSIVE ResultsOfOtherChunks(_)
ResultsOfOtherChunks(log) ==
    IF log = <<>> THEN <<>>
    ELSE (IF BatchScopeFailure(Head(log).resp) THEN <<>> ELSE Head(log).added)
             \o ResultsOfOtherChunks(Tail(log))

OtherFieldsValid(raw) ==
    /\ raw.dict
    /\ raw.task_id.tag = "str"
    /\ raw.reasoning = "str"

ScoreFieldValid(f) == f.tag = "int" /\ f.n >= 0 /\ f.n <= 100

LevelInvalidOrMissing(f) == f.tag # "str" \/ ~InValidLevels(Strip(Upper(f.s)))

FixedTable(level) ==
    CASE level = P1 -> 4 [] level = P2 -> 3 [] level = P3 -> 2 [] level = P4 -> 1 [] OTHER -> 0

\* C9: for TaskPriority and InboxOrganization alike, an element whose
\* priority_level is invalid or missing is accepted with level P4, and every
\* accepted element's numeric priority is P1->4, P2->3, P3->2, P4->1.
C9_InvalidLevelBecomesP4 ==
    v_res.ran =>
        /\ (/\ OtherFieldsValid(v_raw)
            /\ ScoreFieldValid(v_raw.priority_score)
            /\ LevelInvalidOrMissing(v_raw.priority_level))
              => (v_res.out.ok /\ v_res.out.priority_level = P4)
        /\ v_res.out.ok =>
              todoist_priority(v_model, v_res.out.priority_level)
                  = FixedTable(v_res.out.priority_level)

\* C10: an element whose priority_score is an integer outside [0,100] is
\* accepted with the score clamped to the nearest bound, for ranking and
\* organization elements alike; every accepted score is in [0,100].
C10_ScoreClamped ==
    v_res.ran =>
        /\ (/\ OtherFieldsValid(v_raw)
            /\ ~LevelInvalidOrMissing(v_raw.priority_level)
            /\ v_raw.priority_score.tag = "int"
            /\ (v_raw.priority_score.n < 0 \/ v_raw.priority_score.n > 100))
              => /\ v_res.out.ok
                 /\ v_res.out.priority_score
                        = (IF v_raw.priority_score.n < 0 THEN 0 ELSE 100)
        /\ v_res.out.ok => (v_res.out.priority_score >= 0 /\ v_res.out.priority_score <= 100)

(***************************************************************************)
(* Claims about the retried remote calls (SpecClient).                      *)
(***************************************************************************)
TodoistOps == {"get_tasks", "update_task_priority", "update_task_due_date", "reorder_tasks"}

LastAttempt == c_call.attempts[Len(c_call.attempts)]

\* C4: a task-service call that fails with a retryable HTTP error status is
\* attempted again until it succeeds or the 3 attempts are used up: a call
\* never ends on such a status with attempts to spare.
C4_HttpErrorStatusRetried ==
    (/\ c_call.op \in TodoistOps
     /\ c_call.attempts # NoAttempts
     /\ LastAttempt = "status_503")
        => Len(c_call.attempts) = 3

TransientFailures == {"RequestException", "transient_error", "status_503"}

\* C5: for both integrations, an operation is attempted at most 3 times, and
\* every attempt that is followed by a retry failed transiently; a
\* non-transient failure ends the call at once.
C5_RetryOnlyOnTransient ==
    /\ Len(c_call.attempts) <= 3
    /\ \A k \in 1..(Len(c_call.attempts) - 1) : c_call.attempts[k] \in TransientFailures

(***************************************************************************)
(* Claims about the RateLimiter (SpecLimiter).                              *)
(***************************************************************************)
InWindow(t, end) == t >= end - period /\ t <= end

\* C6: for max_calls >= 1 the recorded timestamps never hold more than
\* max_calls timestamps inside a trailing window of period_seconds, and the
\* call that comes max_calls calls after another is recorded only after that
\* one has aged out of the window.
C6_WindowNeverExceeded ==
    max_calls >= 1 =>
        /\ \A j \in 1..Len(recorded) :
              Cardinality({k \in 1..Len(recorded) : InWindow(recorded[k], recorded[j])})
                  <= max_calls
        /\ \A j \in 1..(Len(recorded) - max_calls) :
              recorded[j + max_calls] > recorded[j] + period

\* max_calls + 1 calls were issued within one period, and the last of them
\* was recorded after a sleep, more than a period after the first
C6_Witness ==
    /\ max_calls = 2
    /\ Len(recorded) = 3
    /\ issued_at[3] - issued_at[1] < period
    /\ recorded[3] > issued_at[3]
    /\ recorded[3] > recorded[1] + period

(***************************************************************************)
(* Claims about the Today selection (SpecSelect).                           *)
(***************************************************************************)
LevelNumber(level) == CHOOSE k \in 1..4 : <<P1, P2, P3, P4>>[k] = level

Ranked(id) == id \in all_tasks /\ \E k \in 1..Len(rankings) : rankings[k].task_id = id

\* the highest bucket a ranked task was put in
BucketOf(id) ==
    LET buckets == {LevelNumber(rankings[k].priority_level) :
                       k \in {j \in 1..Len(rankings) : rankings[j].task_id = id}}
    IN  CHOOSE m \in buckets : \A other \in buckets : m <= other

Selected(id) == \E k \in 1..Len(selected_tasks) : selected_tasks[k] = id

\* C7: after the selection, no ranked task of a lower bucket is selected
\* while a ranked task of a strictly higher bucket is left unselected,
\* whatever their scores (so a P1 task is taken before a P4 task of score 100).
C7_BucketPrecedence ==
    sel_pc = "done" =>
        \A a \in all_tasks, b \in all_tasks :
            (Ranked(a) /\ Ranked(b) /\ BucketOf(a) < BucketOf(b) /\ Selected(b))
                => Selected(a)

\* the limit leaves room for one of a P1 task of low score and a P4 task of
\* score 100: the P1 task is the one selected
C7_Witness ==
    /\ sel_pc = "done"
    /\ limit = 1
    /\ \E a \in all_tasks, b \in all_tasks :
          /\ rankings = <<[task_id |-> b, priority_level |-> P4, priority_score |-> 100],
                          [task_id |-> a, priority_level |-> P1, priority_score |-> 10]>>
          /\ a # b
          /\ selected_tasks = <<a>>

(***************************************************************************)
(* Claims about dry runs (SpecRun).                                         *)
(***************************************************************************)
DryRunMethods == {"update_task_priority", "update_task_due_date", "reorder_tasks"}

\* C8: a run with dry_run = true never sends a mutating request, in any
\* mode, and update_task_priority, update_task_due_date and reorder_tasks
\* called with dry_run = true return without any request.
C8_DryRunSendsNothing ==
    /\ run_dry_run => sent \cap MutatingKinds = {}
    /\ (c_call.op \in DryRunMethods /\ c_call.dry_run) => c_call.attempts = NoAttempts

\* a dry run went through ranking and summary and returned, and a client
\* method was called with dry_run = true on arguments that would otherwise
\* send a request
C8_Witness ==
    /\ run_dry_run
    /\ outcome = "dry_run_done"
    /\ c_call.op = "reorder_tasks"
    /\ c_call.dry_run
    /\ c_call.n > 0
    /\ c_call.result = "True"

(***************************************************************************)
(* Claims about the batch updates (SpecBatch).                              *)
(***************************************************************************)
FailedItems == {k \in 1..Len(b_log) : b_log[k].result = "False"}

\* C11: batch_update_priorities and batch_update_due_dates never raise
\* because an update failed; the items are attempted once each in input
\* order whatever the earlier outcomes; and on return successful + failed is
\* the number of input items, failed being the number of items whose update
\* returned False.
C11_BatchAttemptsEveryItem ==
    /\ b_pc # "raised"
    /\ \A k \in 1..Len(b_log) : b_log[k].item = k
    /\ b_pc = "returned" =>
          /\ Len(b_log) = Len(b_updates)
          /\ b_results.successful + b_results.failed = Len(b_updates)
          /\ b_results.failed = Cardinality(FailedItems)

\* a batch returned after its first item failed with the retries used up and
\* a later item succeeded
C11_Witness ==
    /\ b_pc = "returned"
    /\ Len(b_updates) = 2
    /\ b_log[1].result = "False"
    /\ b_log[1].requests = stop_after_attempt
    /\ b_log[2].result = "True"
    /\ b_log[2].requests = 1

(***************************************************************************)
(* Claims about the report of unscored tasks (SpecReport).                  *)
(***************************************************************************)
Unscored == Range(tasks) \ SeqIds(returned)

\* C12: in every mode, once the run has gone past the report step, if some
\* fetched task has no score or suggestion in the returned collection then
\* print_missing_tasks was invoked and listed exactly the ids of those tasks.
C12_MissingTasksListed ==
    (report.done /\ Unscored # {}) => (report.invoked /\ report.listed = Unscored)

(***************************************************************************)
(* Claims about the mismatch of the merged result (SpecRank).               *)
(***************************************************************************)
SymDiff(a, b) == (a \cup b) \ (a \cap b)

\* C15: when rank_tasks / organize_inbox_tasks return, whatever the batch
\* size and the outcomes of the chunks, missing is the input ids without the
\* returned ids, extra the returned ids without the input ids, their union
\* the symmetric difference of the two id sets, and the mismatch is logged
\* iff that set is not empty.
C15_MismatchIsSymmetricDifference ==
    Returned =>
        /\ mismatch.missing = Range(tasks) \ SeqIds(returned)
        /\ mismatch.extra = SeqIds(returned) \ Range(tasks)
        /\ mismatch.missing \cup mismatch.extra = SymDiff(Range(tasks), SeqIds(returned))
        /\ mismatch.logged <=> SymDiff(Range(tasks), SeqIds(returned)) # {}

\* a result merged from several chunks that misses an input id and holds an
\* id that is not in the input
C15_Witness ==
    /\ Returned
    /\ Len(chunk_log) >= 2
    /\ mismatch.missing # {}
    /\ mismatch.extra # {}
    /\ mismatch.logged

(***************************************************************************)
(* More claims about the Today selection and the final order (SpecSelect).  *)
(***************************************************************************)
RankedOnce(id) ==
    id \in all_tasks /\ Cardinality({k \in 1..Len(rankings) : rankings[k].task_id = id}) = 1

PositionIn(s, id) == CHOOSE k \in 1..Len(s) : s[k] = id

\* two selected tasks of one bucket with equal scores stand in the order of
\* their rankings
EqualScoresKeepOrder ==
    sel_pc \in {"done", "again"} =>
          \A j \in 1..Len(rankings), k \in 1..Len(rankings) :
              (/\ j < k
               /\ RankedOnce(rankings[j].task_id)
               /\ RankedOnce(rankings[k].task_id)
               /\ rankings[j].priority_level = rankings[k].priority_level
               /\ rankings[j].priority_score = rankings[k].priority_score
               /\ Selected(rankings[k].task_id))
                  => /\ Selected(rankings[j].task_id)
                     /\ PositionIn(selected_tasks, rankings[j].task_id)
                            < PositionIn(selected_tasks, rankings[k].task_id)

SameKey(x, y) == x.priority = y.priority /\ x.score = y.score

\* the items of a list that carry the key of x, in the list's order
WithKeyOf(s, x) ==
    LET Same(y) == SameKey(x, y)
    IN  SelectSeq(s, Same)

SortedFrom(sorted, before) ==
    /\ Len(sorted) = Len(before)
    /\ \A j \in 1..Len(sorted), k \in 1..Len(sorted) :
          j < k => \/ sorted[j].priority > sorted[k].priority
                   \/ /\ sorted[j].priority = sorted[k].priority
                      /\ sorted[j].score >= sorted[k].score
    /\ \A j \in 1..Len(before) : WithKeyOf(sorted, before[j]) = WithKeyOf(before, before[j])

\* C20: the list handed to reorder_tasks, in the Today mode and in the plain
\* mode, is the list before the sort put in the order of numeric priority
\* descending, then score descending, and items of equal priority and score
\* keep the order they had before the sort.
C20_ReorderListSorted ==
    sel_pc = "ordered" =>
        /\ SortedFrom(final_ordered_tasks, ordered_tasks_list(selected_tasks, rankings))
        /\ SortedFrom(ordered_tasks, ranked_tasks_list(all_tasks, rankings))

\* plain mode: a P4 ranking of score 100 given before a P1 ranking of score
\* 10; the P1 task comes first
C20_Witness ==
    /\ sel_pc = "ordered"
    /\ Len(ordered_tasks) = 2
    /\ rankings[1].priority_level = P4 /\ rankings[1].priority_score = 100
    /\ rankings[2].priority_level = P1 /\ rankings[2].priority_score = 10
    /\ ordered_tasks[1].task = rankings[2].task_id
    /\ ordered_tasks[2].task = rankings[1].task_id
    /\ rankings[1].task_id # rankings[2].task_id

(***************************************************************************)
(* Claims about the Today reconciliation and its writes (SpecToday).        *)
(***************************************************************************)
Recurring == {id \in DOMAIN t_tasks : t_tasks[id].is_recurring}

RankedPriority(id) ==
    TaskPriority_todoist_priority(get_ranking_for_task(t_rankings, id).priority_level)

\* C13: organize_today_view issues no due-date write, "today" or "tomorrow",
\* for a recurring task, while a recurring selected task gets a priority
\* update when its priority differs from the ranked one and is in the list
\* passed to reorder_tasks.
C13_RecurringKeepSchedule ==
    t_pc = "applied" =>
        /\ Recurring \cap (Range(t_writes.due_today) \cup Range(t_writes.due_tomorrow)) = {}
        /\ \A id \in Recurring \cap Range(t_selected) :
              /\ id \in Range(t_writes.reorder)
              /\ t_tasks[id].priority # RankedPriority(id)
                    => <<id, RankedPriority(id)>> \in Range(t_writes.priority)

\* a recurring selected task whose priority differs, beside a task that is
\* not recurring and gets a due-date write
C13_Witness ==
    /\ t_pc = "applied"
    /\ \E id \in Recurring \cap Range(t_selected) :
          /\ t_tasks[id].priority # RankedPriority(id)
          /\ <<id, RankedPriority(id)>> \in Range(t_writes.priority)
          /\ id \in Range(t_writes.reorder)
    /\ t_writes.due_today \o t_writes.due_tomorrow # <<>>

\* C14: tasks_to_add is exactly the selected tasks that are not in the
\* current Today set, tasks_to_remove exactly the current Today tasks that
\* are not selected (unscored ones included); the two are disjoint and no
\* selected task is to be removed.
C14_AddRemoveAreTheDiff ==
    t_pc \in {"diffed", "applied"} =>
        /\ Range(tasks_to_add) = Range(t_selected) \ Range(t_current)
        /\ Range(tasks_to_remove) = Range(t_current) \ Range(t_selected)
        /\ Len(tasks_to_add) = Cardinality(Range(tasks_to_add))
        /\ Len(tasks_to_remove) = Cardinality(Range(tasks_to_remove))
        /\ Range(tasks_to_add) \cap Range(tasks_to_remove) = {}
        /\ Range(t_selected) \cap Range(tasks_to_remove) = {}

\* a current Today task without a score is removed and a selected task is
\* added
C14_Witness ==
    /\ t_pc = "diffed"
    /\ tasks_to_add # <<>>
    /\ \E id \in Range(tasks_to_remove) : get_ranking_for_task(t_rankings, id) = None

(***************************************************************************)
(* Date equivalence (SpecDates).                                            *)
(***************************************************************************)
\* C17: for the current date d, dates_are_equivalent gives True for
\* ("today", ISO(d)) and for ("next week", ISO(d + 7)), False for
\* ("2025-01-01", "2025-01-02"), True for (None, None) and False for
\* (None, "today").
C17_DateEquivalenceExamples ==
    d_pc = "done" =>
        /\ (d_date1 = Str(W_today) /\ d_date2 = Str(strftime(d_now))) => d_result
        /\ (d_date1 = Str(W_next_week) /\ d_date2 = Str(strftime(AddDays(d_now, 7))))
               => d_result
        /\ (d_date1 = Str(<<"2", "0", "2", "5", "-", "0", "1", "-", "0", "1">>) /\ d_date2 = Str(<<"2", "0", "2", "5", "-", "0", "1", "-", "0", "2">>))
               => ~d_result
        /\ (d_date1 = None /\ d_date2 = None) => d_result
        /\ (d_date1 = None /\ d_date2 = Str(W_today)) => ~d_result

\* "next week" met the ISO date seven days after 31 December, in the next year
C17_Witness ==
    /\ d_pc = "done"
    /\ d_now = Date(2025, 12, 31)
    /\ d_date1 = Str(W_next_week)
    /\ d_date2 = Str(<<"2", "0", "2", "6", "-", "0", "1", "-", "0", "7">>)
    /\ d_result

\* a YYYY-MM-DD literal of an existing calendar date
IsoLiteral(t) ==
    /\ Len(t) = 10
    /\ \A k \in 1..10 : IF k \in {5, 8} THEN t[k] = "-" ELSE IsDigit(t[k])
    /\ ParseInt(SubSeq(t, 1, 4)) >= 1
    /\ ParseInt(SubSeq(t, 6, 7)) \in 1..12
    /\ ParseInt(SubSeq(t, 9, 10))
           \in 1..DaysInMonth(ParseInt(SubSeq(t, 1, 4)), ParseInt(SubSeq(t, 6, 7)))

\* the relative dates the claim lists, each with its offset in days
ClaimedOffsets ==
    {<<W_today, 0>>, <<W_tomorrow, 1>>, <<W_yesterday, 0 - 1>>, <<W_next_week, 7>>,
     <<W_in_a_week, 7>>, <<W_next_month, 30>>, <<W_in_a_month, 30>>}

\* the calendar date a non-empty date string stands for, if it stands for one
ClaimedDate(x, now) ==
    LET t == Lower(Strip(x.s))
    IN  IF IsoLiteral(t)
        THEN [ok |-> TRUE,
              date |-> Date(ParseInt(SubSeq(t, 1, 4)), ParseInt(SubSeq(t, 6, 7)),
                            ParseInt(SubSeq(t, 9, 10)))]
        ELSE IF \E p \in ClaimedOffsets : p[1] = t
        THEN [ok |-> TRUE,
              date |-> AddDays(now, (CHOOSE p \in ClaimedOffsets : p[1] = t)[2])]
        ELSE [ok |-> FALSE, date |-> now]

MissingCredential ==
    \/ ~env_todoist_api_token.set
    \/ env_todoist_api_token.value \in {"", todoist_token_placeholder}
    \/ ~env_openai_api_key.set
    \/ env_openai_api_key.value \in {"", openai_key_placeholder}

\* C19: with a missing credential (an empty or placeholder Todoist token or
\* OpenAI key) main never gets past the loading of the configuration: no
\* request to the task service or to the language model is ever issued, and
\* main returns a non-zero exit code.
C19_MissingCredentialFailsBeforeRequests ==
    MissingCredential =>
        /\ s_pc \in {"start", "exit"}
        /\ s_todoist_requests = 0
        /\ s_openai_requests = 0
        /\ s_pc = "exit" => s_exit # 0

\* a valid Todoist token with the placeholder OpenAI key: the run has ended
\* with exit code 1 and nothing was sent
C19_Witness ==
    /\ s_pc = "exit"
    /\ env_todoist_api_token = EnvValue("secret")
    /\ env_openai_api_key = EnvValue(openai_key_placeholder)
    /\ s_exit = 1
    /\ s_todoist_requests = 0
    /\ s_openai_requests = 0

(***************************************************************************)
(* Element-wise recovery of organize_inbox_tasks (SpecRank).                *)
(***************************************************************************)
\* the elements of a response that validate on their own, in response order
ValidatingElements(elems) ==
    LET Validates(k) == InboxOrganization(elems[k]).ok
        kept == SelectSeq([k \in 1..Len(elems) |-> k], Validates)
    IN  [j \in 1..Len(kept) |-> InboxOrganization(elems[kept[j]])]

\* the whole-collection validation of a chunk failed although its response
\* holds the organizations array
RecoveredChunk(c) ==
    /\ chunk_log[c].resp.outcome = "ok"
    /\ \E k \in 1..Len(chunk_log[c].resp.elems) :
          ~InboxOrganization(chunk_log[c].resp.elems[k]).ok

\* C21: in organize_inbox_tasks, when the whole-collection validation of a
\* batch response fails but the response holds the organizations array, exactly
\* the elements that validate on their own are appended, in response order; an
\* invalid element never makes a valid element of its batch disappear.
C21_ElementwiseRecovery ==
    kind = "org" =>
        \A c \in 1..Len(chunk_log) :
            RecoveredChunk(c) => chunk_log[c].added = ValidatingElements(chunk_log[c].resp.elems)

(***************************************************************************)
(* Chunking and order of the merged collection (SpecRank).                  *)
(***************************************************************************)
RECURSIVE ChunksJoined(_)
ChunksJoined(log) ==
    IF log = <<>> THEN <<>> ELSE Head(log).batch \o ChunksJoined(Tail(log))

RECURSIVE ResultsJoined(_)
ResultsJoined(log) ==
    IF log = <<>> THEN <<>> ELSE Head(log).added \o ResultsJoined(Tail(log))

\* the c-th consecutive chunk of ts, of width at most bs
ConsecutiveChunk(ts, c, bs) ==
    [k \in 1..(IF c * bs <= Len(ts) THEN bs ELSE Len(ts) - (c - 1) * bs) |->
        ts[(c - 1) * bs + k]]

\* C22: rank_tasks and organize_inbox_tasks cut the input into consecutive
\* chunks of batch_size (the last one possibly shorter), every task being in
\* exactly one chunk; the chunks are handled one after the other in input
\* order; and the merged collection holds the results of chunk i before those
\* of chunk j whenever i < j.
C22_ChunksSequentialAndOrdered ==
    /\ rpc = "loop" =>
          /\ i = Len(chunk_log) * batch_size
          /\ \A c \in 1..Len(chunk_log) :
                chunk_log[c].batch = ConsecutiveChunk(tasks, c, batch_size)
          /\ all_rankings = ResultsJoined(chunk_log)
    /\ (rpc = "done" /\ tasks # <<>>) =>
          /\ ChunksJoined(chunk_log) = tasks
          /\ \A c \in 1..Len(chunk_log) : chunk_log[c].batch # <<>>
          /\ returned = ResultsJoined(chunk_log)

\* three tasks in chunks of two and one, both chunks answered: the results of
\* the first chunk come first
C22_Witness ==
    /\ rpc = "done"
    /\ Len(tasks) = 3
    /\ batch_size = 2
    /\ Len(chunk_log) = 2
    /\ Len(chunk_log[1].added) = 2
    /\ Len(chunk_log[2].added) = 1
    /\ [k \in 1..Len(returned) |-> returned[k].task_id] = <<1, 2, 3>>

(***************************************************************************)
(* wait_if_needed never fails (SpecLimiter).                                *)
(***************************************************************************)
\* C23: RateLimiter.wait_if_needed never raises, whatever max_calls, the
\* period and the history of calls are, and every top-level call that has
\* returned has appended exactly one timestamp, taken at or after the moment
\* the call was made and after its wait, if it had to wait.
C23_WaitNeverRaises ==
    /\ lpc # "raised"
    /\ lpc = "idle" =>
          /\ Len(recorded) = Len(issued_at)
          /\ \A k \in 1..Len(recorded) : recorded[k] >= issued_at[k]
    /\ lpc = "sleeping" => Len(recorded) = Len(issued_at) - 1

(***************************************************************************)
(* The cached lookup of InboxOrganizations (SpecLookup).                    *)
(***************************************************************************)
\* C24: get_organization_for_task(id) agrees with the current contents of the
\* organizations list: it returns an element of the list whose task_id is id,
\* and None iff there is none, also when the list was changed after an earlier
\* lookup built the cached mapping.
C24_LookupAgreesWithList ==
    k_pc = "looked" =>
        IF \E k \in 1..Len(organizations) : organizations[k].task_id = lookup_id
        THEN \E k \in 1..Len(organizations) :
                /\ organizations[k].task_id = lookup_id
                /\ lookup_result = organizations[k]
        ELSE lookup_result = Absent

(***************************************************************************)
(* Shape of the Today selection (SpecSelect).                               *)
(***************************************************************************)
\* C25: the Today selection holds at most limit tasks, each of them one of
\* the fetched tasks, and none of them twice, whatever rankings the ranker
\* returned, rankings for unknown ids and several rankings of one task
\* included.
C25_SelectionBoundedAndDistinct ==
    sel_pc # "ready" /\ sel_pc # "idle" =>
        /\ Len(selected_tasks) <= limit
        /\ \A k \in 1..Len(selected_tasks) : selected_tasks[k] \in all_tasks
        /\ \A k, o \in 1..Len(selected_tasks) :
              selected_tasks[k] = selected_tasks[o] => k = o

(***************************************************************************)
(* The confirmation prompt (SpecRun).                                       *)
(***************************************************************************)
AnsweredYes == confirmation.asked /\ confirmation.text = <<"y">>

\* C26: in every mode no mutating request is sent before the user has
\* answered the prompt with 'y'; any other answer ends the run with exit code
\* 0 and no write; an interrupt ends it with exit code 1 and leaves the writes
\* already sent as they are.
C26_NoWriteBeforeConfirmation ==
    /\ [](~AnsweredYes => sent = {})
    /\ []((confirmation.asked /\ ~AnsweredYes) =>
             /\ pc = "exit"
             /\ outcome = "cancelled"
             /\ exit_code(outcome) = 0)
    /\ [](outcome = "interrupted" => pc = "exit" /\ exit_code(outcome) = 1)
    /\ [][outcome' = "interrupted" => sent' = sent]_vars

\* the user answered y (typed as "Y "), a write was sent, then the run was
\* interrupted
C26_Witness ==
    /\ AnsweredYes
    /\ outcome = "interrupted"
    /\ sent # {}
    /\ ~run_dry_run

(***************************************************************************)
(* Retried calls and the rate window (SpecApi).                             *)
(***************************************************************************)
SentInWindow(end) == {k \in 1..Len(a_log) : a_log[k].at >= end - period /\ a_log[k].at <= end}

\* the requests sent by call c
AttemptsOf(c) == {k \in 1..Len(a_log) : a_log[k].call = c}

\* C27: every attempt of a task-service call, retries included, goes through
\* wait_if_needed first and has its own timestamp in the window, so a call
\* retried r times takes r + 1 slots, and the requests sent within a trailing
\* period never outnumber max_calls.
C27_EveryAttemptRateLimited ==
    /\ Len(recorded) = Len(a_log) + (IF a_pc = "waiting" /\ lpc = "idle" THEN 1 ELSE 0)
    /\ \A k \in 1..Len(a_log) : recorded[k] = a_log[k].at
    /\ \A c \in 1..a_calls : Cardinality(AttemptsOf(c)) <= stop_after_attempt
    /\ \A k \in 1..Len(a_log) : Cardinality(SentInWindow(a_log[k].at)) <= max_calls

\* one call was retried twice: three requests, three timestamps, and with
\* max_calls = 2 the third attempt had to wait for the first to age out
C27_Witness ==
    /\ max_calls = 2
    /\ a_pc = "done"
    /\ Cardinality(AttemptsOf(1)) = 3
    /\ Len(recorded) = 3
    /\ issued_at[3] - issued_at[1] < period
    /\ a_log[3].at > a_log[1].at + period

(***************************************************************************)
(* Priority writes (SpecToday).                                             *)
(***************************************************************************)
\* a list of priority updates holds only tasks that have a ranking and whose
\* snapshot priority differs from the ranked one, with the ranked value, which
\* is in 1..4
OnlyNeededWrites(updates) ==
    \A k \in 1..Len(updates) :
        LET id == updates[k][1]
            value == updates[k][2]
        IN  /\ get_ranking_for_task(t_rankings, id) # None
            /\ value = RankedPriority(id)
            /\ t_tasks[id].priority # value
            /\ value \in 1..4

SnapshotMatches(ids) ==
    \A id \in ids :
        get_ranking_for_task(t_rankings, id) # None => t_tasks[id].priority = RankedPriority(id)

\* C28: a priority write is issued for a task only if it has a score and its
\* snapshot priority differs from the score's numeric priority; the value
\* written is in 1..4; update_task_priority with a value outside 1..4 returns
\* False without a request; and the priority step run on a snapshot that
\* matches the scores issues no priority write.  The plain mode runs the same
\* step over all tasks, the Today mode over the selected ones.
C28_PriorityWritesOnlyWhenNeeded ==
    /\ t_pc \in {"applied", "rerun"} =>
          /\ OnlyNeededWrites(t_writes.priority)
          /\ SnapshotMatches(Range(t_selected)) => t_writes.priority = <<>>
    /\ t_pc # "idle" =>
          /\ OnlyNeededWrites(priority_updates(InIdOrder(DOMAIN t_tasks)))
          /\ SnapshotMatches(DOMAIN t_tasks) => priority_updates(InIdOrder(DOMAIN t_tasks)) = <<>>
    /\ t_pc = "ranked" =>
          \A priority \in {0 - 1, 0, 5}, outs \in [1..stop_after_attempt -> TodoistOutcomes] :
              update_task_priority(priority, FALSE, outs)
                  = [attempts |-> NoAttempts, result |-> "False"]

\* the first run wrote a priority, the write succeeded, and the step run again
\* on the new snapshot wrote nothing
C28_Witness ==
    /\ t_pc = "rerun"
    /\ t_selected # <<>>
    /\ \E id \in Range(t_selected) : get_ranking_for_task(t_rankings, id) # None
    /\ SnapshotMatches(Range(t_selected))
    /\ t_writes.priority = <<>>
    /\ t_writes.due_today # <<>>

(***************************************************************************)
(* C29                                                                      *)
(***************************************************************************)
ClaimedWriteOrder == <<"due_today", "due_tomorrow", "priority", "reorder">>

ClaimedRank(k) == CHOOSE n \in 1..Len(ClaimedWriteOrder) : ClaimedWriteOrder[n] = k

TasksWritten(k) ==
    LET sent_k == SelectSeq(w_log, LAMBDA e : e.kind = k)
    IN  [n \in 1..Len(sent_k) |-> sent_k[n].task]

ClaimedWrites(n) ==
    CASE n = 1 -> w_plan.due_today
      [] n = 2 -> w_plan.due_tomorrow
      [] n = 3 -> w_plan.priority
      [] n = 4 -> IF w_plan.reorder = <<>> THEN <<>> ELSE <<0>>

StepDone(n) == w_step > n \/ (w_step = 0 /\ w_plan \in TodayPlans /\ w_log # <<>>)

\* C29: the writes of organize_today_view go out in the order "today"
\* due dates, "tomorrow" due dates, priorities, reorder; once a step is
\* over, every write of its list has been sent, whatever failed before it:
\* one request per listed task, in list order, and a single reorder command
\* for a non-empty ordered list.
C29_TodayWritesInFixedOrder ==
    /\ \A j \in 1..Len(w_log) : \A k \in 1..Len(w_log) :
          j < k => ClaimedRank(w_log[j].kind) <= ClaimedRank(w_log[k].kind)
    /\ \A n \in 1..Len(ClaimedWriteOrder) :
          StepDone(n) => TasksWritten(ClaimedWriteOrder[n]) = ClaimedWrites(n)
    /\ \A n \in 1..Len(ClaimedWriteOrder) :
          (w_step # 0 /\ w_step <= n) => TasksWritten(ClaimedWriteOrder[n]) = <<>>

C29_Witness ==
    /\ w_step = 0
    /\ \E j \in 1..Len(w_log) : \E k \in 1..Len(w_log) : \E m \in 1..Len(w_log) :
          \E q \in 1..Len(w_log) :
          /\ j < k /\ k < m /\ m < q
          /\ w_log[j].kind = "due_today" /\ ~w_log[j].ok
          /\ w_log[k].kind = "due_tomorrow" /\ ~w_log[k].ok
          /\ w_log[m].kind = "priority" /\ ~w_log[m].ok
          /\ w_log[q].kind = "reorder"

(***************************************************************************)
(* C30                                                                      *)
(***************************************************************************)
\* the task's current due string, or its due date when it has no string
ClaimedCurrentDue(k) ==
    IF ~inbox_dues[k].present THEN None
    ELSE IF inbox_dues[k].string # None /\ inbox_dues[k].string.s # <<>>
         THEN inbox_dues[k].string
         ELSE Str(inbox_dues[k].date)

WritesFor(k) == SelectSeq(inbox_payloads, LAMBDA p : p.task = k)

SuggestionEquivalent(k) ==
    dates_are_equivalent(inbox_orgs[k].due_date, ClaimedCurrentDue(k), inbox_now)

\* C30: in organize_inbox a due-date write goes out for an inbox task
\* exactly when the task has a suggestion whose due_date is not equivalent
\* to the task's current due string or date, and at most once; a suggestion
\* without a due date on a task that has one sends the removal "no date",
\* any other write sends the suggested string, and a suggestion equivalent
\* to the current date sends nothing.
C30_DueDateWriteIffNotEquivalent ==
    inbox_pc = "done" =>
        \A k \in 1..Len(inbox_dues) :
            /\ WritesFor(k) # <<>> <=> (inbox_orgs[k].has /\ ~SuggestionEquivalent(k))
            /\ Len(WritesFor(k)) <= 1
            /\ (inbox_orgs[k].has /\ inbox_orgs[k].due_date = None /\ inbox_dues[k].present)
                  => WritesFor(k) = <<[task |-> k, due_string |-> no_date]>>
            /\ (inbox_orgs[k].has /\ inbox_orgs[k].due_date # None /\ WritesFor(k) # <<>>)
                  => WritesFor(k)[1].due_string = inbox_orgs[k].due_date.s
            /\ (inbox_orgs[k].has /\ SuggestionEquivalent(k)) => WritesFor(k) = <<>>

C30_Witness ==
    /\ inbox_pc = "done"
    /\ \E j \in 1..Len(inbox_dues) : \E k \in 1..Len(inbox_dues) :
          /\ inbox_orgs[j].has /\ inbox_orgs[j].due_date = None /\ inbox_dues[j].present
          /\ WritesFor(j) = <<[task |-> j, due_string |-> no_date]>>
          /\ inbox_orgs[k].has /\ inbox_orgs[k].due_date = Str(W_tomorrow)
          /\ inbox_dues[k].present /\ inbox_dues[k].string = None
          /\ WritesFor(k) = <<>>

====
